---- MODULE Spec2Model ----
(***************************************************************************)
(* State-machine model of the promo-code pre-compute engine:               *)
(*   cmd/precompute/main.go            (CLI)                               *)
(*   internal/precompute/partition.go  (hasher, partitioner, orchestrator) *)
(*   processBucket / processBucketsWorker (bucket reducer, worker)         *)
(*   internal/precompute/writer.go     (result writer)                     *)
(* Byte strings are sequences of byte values (0..255).                     *)
(***************************************************************************)
EXTENDS Integers, Sequences, FiniteSets, TLC

(***************************************************************************)
(* Bounds of the model.                                                    *)
(***************************************************************************)
MaxEntries == 2        \* entries in the input directory
MaxWorkers == 2        \* largest explicit value of the workers argument
MaxCPU == 1            \* largest value runtime.NumCPU() reports
MaxHashLen == 2        \* longest byte string over HashBytes given to hashCode
MaxHashBuckets == 3    \* hashCode is called with every bucket count 1..MaxHashBuckets
MaxCalls == 2          \* repetitions of one direct call
MaxSpillLines == 3     \* lines of a spill file given to processBucket directly
MaxWriteRecords == 3   \* records of a list given to WriteTextFile directly
MaxScanLines == 3      \* lines handed to the partitioning loop directly
BulkLines == 375       \* equal lines of the bulk input file (their entries overflow a writer)

(***************************************************************************)
(* Program constants.                                                      *)
(***************************************************************************)
numBuckets == 1000
progressReportInterval == 10000000
scannerMaxBuffer == 1024 * 1024
bucketScannerMax == 64 * 1024     \* bufio.MaxScanTokenSize, default of NewScanner
NL == 10                          \* '\n'
PIPE == 124                       \* '|'

writerBufSize == 4096              \* bufio.NewWriter default buffer size

NoErr == <<>>                      \* a nil error
NoFile == <<"absent">>             \* a path at which no file exists

(***************************************************************************)
(* Byte-string helpers.                                                    *)
(***************************************************************************)
RECURSIVE Xor8(_, _, _)
\* bitwise exclusive or of the low n bits of a and b
Xor8(a, b, n) ==
    IF n = 0 THEN 0
    ELSE (((a % 2) + (b % 2)) % 2) + 2 * Xor8(a \div 2, b \div 2, n - 1)

FnvStep_Fnv1(h, byte) ==
    LET t  == h[2] * 403
        lo == t % 65536
    IN  << (h[1] * 403 + (t \div 65536) + (h[2] % 256) * 256) % 65536,
           (lo \div 256) * 256 + Xor8(lo % 256, byte, 8) >>

\* One FNV-1a step on a 32-bit hash held as <<high 16 bits, low 16 bits>>:
\* h = (h XOR byte) * 16777619 mod 2^32, with 16777619 = 2^24 + 403.
FnvStep(h, byte) ==
    LET lo == (h[2] \div 256) * 256 + Xor8(h[2] % 256, byte, 8)
        t  == lo * 403
    IN  << (h[1] * 403 + (t \div 65536) + (lo % 256) * 256) % 65536, t % 65536 >>

Half == 0 .. 65535

\* h.Write(code): the hash state after the bytes of code, one step per byte
FnvFold[h \in Half \X Half, code \in Seq(0 .. 255)] ==
    IF Len(code) = 0 THEN h ELSE FnvFold[FnvStep(h, code[1]), Tail(code)]

\* fnv.New32a(); h.Write(code); h.Sum32()   (offset basis 0x811C9DC5)
Fnv32a(code) == FnvFold[<<33052, 40389>>, code]

\* hashCode: int(h.Sum32() % uint32(numBuckets))
hashCode(code, nb) ==
    LET h == Fnv32a(code) IN ((h[1] % nb) * (65536 % nb) + h[2]) % nb

\* least index i >= from with data[i] = b, or 0 when there is none
IndexByte(data, b, from) ==
    LET hits == {k \in from .. Len(data) : data[k] = b}
    IN  IF hits = {} THEN 0 ELSE CHOOSE k \in hits : \A j \in hits : k <= j

\* greatest index i <= to with data[i] = b, or 0 when there is none
LastIndexByte(data, b, to) ==
    LET hits == {k \in 1 .. to : data[k] = b}
    IN  IF hits = {} THEN 0 ELSE CHOOSE k \in hits : \A j \in hits : k >= j

dropCR_Keep(tok) == tok

\* bufio.dropCR: one trailing '\r' is removed from a line
dropCR(tok) ==
    IF Len(tok) > 0 /\ tok[Len(tok)] = 13 THEN SubSeq(tok, 1, Len(tok) - 1) ELSE tok

RECURSIVE ScanLines(_, _)
\* bufio.Scanner with the ScanLines split function and a maximum token size:
\* the tokens delivered by successive Scan() calls, and whether Err() is set
\* (bufio.ErrTooLong) once Scan() has returned false.
\* A file of several lines is cut after a '\n' near its middle: the scanner
\* delivers the tokens of the first part and, unless it stopped there, goes on
\* with the second.
ScanLines(data, max) ==
    IF Len(data) = 0 THEN [toks |-> <<>>, err |-> FALSE]
    ELSE LET mid == (Len(data) + 1) \div 2
             fwd == IndexByte(data, NL, mid)
             cut == IF fwd # 0 /\ fwd < Len(data) THEN fwd
                    ELSE LastIndexByte(data, NL, mid - 1)
         IN  IF cut = 0
             THEN \* one line, with or without its '\n'
                  LET i == IF data[Len(data)] = NL THEN Len(data) ELSE 0 IN
                  IF i = 0
                  THEN IF Len(data) >= max
                       THEN [toks |-> <<>>, err |-> TRUE]
                       ELSE [toks |-> <<dropCR(data)>>, err |-> FALSE]
                  ELSE IF i > max
                       THEN [toks |-> <<>>, err |-> TRUE]
                       ELSE [toks |-> <<dropCR(SubSeq(data, 1, i - 1))>>, err |-> FALSE]
             ELSE LET first == ScanLines(SubSeq(data, 1, cut), max) IN
                  IF first.err THEN first
                  ELSE LET rest == ScanLines(SubSeq(data, cut + 1, Len(data)), max)
                       IN  [toks |-> first.toks \o rest.toks, err |-> rest.err]

RECURSIVE Itoa(_)
\* fmt %d of a non-negative int
Itoa(n) == IF n < 10 THEN <<48 + n>> ELSE Itoa(n \div 10) \o <<48 + (n % 10)>>

IsDigit(b) == b >= 48 /\ b <= 57

RECURSIVE DigitsValue(_, _, _)
DigitsValue(s, i, acc) ==
    IF i > Len(s) THEN acc ELSE DigitsValue(s, i + 1, acc * 10 + (s[i] - 48))

Atoi_ZeroOnError(s) ==
    [ok |-> TRUE,
     val |-> IF Len(s) > 0 /\ \A i \in 1..Len(s) : IsDigit(s[i])
             THEN DigitsValue(s, 1, 0) ELSE 0]

\* strconv.Atoi: optional sign, then one or more decimal digits
\* (inputs here are far shorter than the 19 digits where int64 overflows).
Atoi(s) ==
    LET signed == Len(s) > 0 /\ s[1] \in {43, 45}
        digits == IF signed THEN SubSeq(s, 2, Len(s)) ELSE s
    IN  IF Len(digits) = 0 \/ \E i \in 1..Len(digits) : ~IsDigit(digits[i])
        THEN [ok |-> FALSE, val |-> 0]
        ELSE [ok |-> TRUE,
              val |-> IF signed /\ s[1] = 45 THEN 0 - DigitsValue(digits, 1, 0)
                      ELSE DigitsValue(digits, 1, 0)]

RECURSIVE Split(_, _)
\* strings.Split(line, sep) for a one-byte separator
Split(line, sep) ==
    LET i == IndexByte(line, sep, 1) IN
    IF i = 0 THEN <<line>>
    ELSE <<SubSeq(line, 1, i - 1)>> \o Split(SubSeq(line, i + 1, Len(line)), sep)

RECURSIVE StrLess(_, _)
\* Go string comparison a < b: lexicographic on bytes
StrLess(a, b) ==
    IF Len(b) = 0 THEN FALSE
    ELSE IF Len(a) = 0 THEN TRUE
    ELSE IF a[1] # b[1] THEN a[1] < b[1]
    ELSE StrLess(Tail(a), Tail(b))

RECURSIVE InsertSorted(_, _)
InsertSorted(s, x) ==
    IF Len(s) = 0 THEN <<x>>
    ELSE IF StrLess(x, s[1]) THEN <<x>> \o s
    ELSE <<s[1]>> \o InsertSorted(Tail(s), x)

RECURSIVE SortFrom(_, _)
SortFrom(s, acc) == IF Len(s) = 0 THEN acc ELSE SortFrom(Tail(s), InsertSorted(acc, s[1]))

SortStrings_Unsorted(s) == s

\* sort.Strings: the elements of s in ascending byte order, duplicates kept
SortStrings(s) == SortFrom(s, <<>>)

Range(s) == {s[i] : i \in 1..Len(s)}

\* content of a sparse bucket-indexed store; absent means empty
Get(f, b) == IF b \in DOMAIN f THEN f[b] ELSE <<>>
Put(f, b, v) == (b :> v) @@ f
EmptyMap == [x \in {} |-> <<>>]

(***************************************************************************)
(* Bucket reducer (processBucket).                                         *)
(***************************************************************************)
Promotes_One(seen) == Cardinality(seen) >= 1

\* len(info.fileIndices) >= 2
Promotes(seen) == Cardinality(seen) >= 2

NewInfo == [fileIndices |-> {}, isValid |-> FALSE]

ReduceLine_NoValidCheck(st, line) ==
    LET parts == Split(line, PIPE) IN
    IF Len(parts) # 2 THEN st
    ELSE LET code == parts[1]
             idx  == Atoi(parts[2])
         IN  IF ~idx.ok THEN st
             ELSE LET info == IF code \in DOMAIN st.codeMap THEN st.codeMap[code] ELSE NewInfo
                      seen == info.fileIndices \cup {idx.val}
                  IN  IF FALSE
                      THEN st
                      ELSE IF Promotes(seen)
                      THEN [codeMap    |-> Put(st.codeMap, code, [fileIndices |-> {}, isValid |-> TRUE]),
                            validCodes |-> Append(st.validCodes, code)]
                      ELSE [codeMap    |-> Put(st.codeMap, code, [fileIndices |-> seen, isValid |-> FALSE]),
                            validCodes |-> st.validCodes]

\* one iteration of the scan loop: st = [codeMap, validCodes]
ReduceLine(st, line) ==
    LET parts == Split(line, PIPE) IN
    IF Len(parts) # 2 THEN st
    ELSE LET code == parts[1]
             idx  == Atoi(parts[2])
         IN  IF ~idx.ok THEN st
             ELSE LET info == IF code \in DOMAIN st.codeMap THEN st.codeMap[code] ELSE NewInfo
                      seen == info.fileIndices \cup {idx.val}
                  IN  IF info.isValid
                      THEN st
                      ELSE IF Promotes(seen)
                      THEN [codeMap    |-> Put(st.codeMap, code, [fileIndices |-> {}, isValid |-> TRUE]),
                            validCodes |-> Append(st.validCodes, code)]
                      ELSE [codeMap    |-> Put(st.codeMap, code, [fileIndices |-> seen, isValid |-> FALSE]),
                            validCodes |-> st.validCodes]

RECURSIVE ReduceRange(_, _, _, _)
\* the scan loop over lines[lo .. hi], first half then second half
ReduceRange(st, lines, lo, hi) ==
    IF lo > hi THEN st
    ELSE IF lo = hi THEN ReduceLine(st, lines[lo])
    ELSE LET mid  == (lo + hi) \div 2
             half == ReduceRange(st, lines, lo, mid)
         IN  \* the state after the first half is computed before the second is entered
             IF Len(half.validCodes) >= 0 THEN ReduceRange(half, lines, mid + 1, hi)
             ELSE half

ReduceLines(st, lines, i) == ReduceRange(st, lines, i, Len(lines))

processBucket_SkipFirst(data) ==
    LET sc == ScanLines(data, bucketScannerMax)
        st == ReduceLines([codeMap |-> EmptyMap, validCodes |-> <<>>], sc.toks, 2)
    IN  IF sc.err THEN [codes |-> <<>>, err |-> TRUE]
        ELSE [codes |-> st.validCodes, err |-> FALSE]

\* processBucket on a spill file holding `data`: [codes, err]
processBucket(data) ==
    LET sc == ScanLines(data, bucketScannerMax)
        st == ReduceLines([codeMap |-> EmptyMap, validCodes |-> <<>>], sc.toks, 1)
    IN  IF sc.err THEN [codes |-> <<>>, err |-> TRUE]
        ELSE [codes |-> st.validCodes, err |-> FALSE]

(***************************************************************************)
(* Partitioner helpers.                                                    *)
(***************************************************************************)
LengthOK_Wide(code) == ~(Len(code) < 7 \/ Len(code) > 10)

LengthOK_Narrow(code) == ~(Len(code) < 9 \/ Len(code) > 10)

\* the filter of partitionFiles: not (len(code) < 8 || len(code) > 10)
LengthOK(code) == ~(Len(code) < 8 \/ Len(code) > 10)

SpillEntry_TrimRight(code, fileIdx) ==
    (IF Len(code) > 0 /\ code[Len(code)] = 32 THEN SubSeq(code, 1, Len(code) - 1) ELSE code)
        \o <<PIPE>> \o Itoa(fileIdx) \o <<NL>>

\* fmt.Sprintf("%s|%d\n", code, fileIdx)
SpillEntry(code, fileIdx) == code \o <<PIPE>> \o Itoa(fileIdx) \o <<NL>>

\* strings.Join(validCodes, "\n") plus a trailing "\n" when the list is non-empty
RECURSIVE JoinNL(_)
JoinNL(codes) ==
    IF Len(codes) = 0 THEN <<>>
    ELSE IF Len(codes) = 1 THEN codes[1]
    ELSE codes[1] \o <<NL>> \o JoinNL(Tail(codes))

TextFileContent_Join(validCodes) == JoinNL(validCodes)

TextFileContent(validCodes) ==
    IF Len(validCodes) > 0 THEN JoinNL(validCodes) \o <<NL>> ELSE <<>>

(***************************************************************************)
(* Inputs: the directory listing is a sequence of at most MaxEntries       *)
(* entries drawn from EntryUniverse.                                       *)
(***************************************************************************)
RecA == <<65, 65, 65, 65, 65, 65, 65, 65>>                 \* "AAAAAAAA"     bucket 5
RecB == <<65, 65, 66, 65, 65, 65, 65, 65, 65, 66>>         \* "AABAAAAAAB"   bucket 5
RecC == <<66, 66, 66, 66, 66, 66, 66, 66, 66, 66>>         \* "BBBBBBBBBB"   bucket 533
RecPipe == <<65, 65, 65, 65, 124, 66, 66, 66, 66>>         \* "AAAA|BBBB"
RecShort == <<65, 65, 65, 65, 65, 65, 65>>                 \* 7 bytes
RecLong == <<66, 66, 66, 66, 66, 66, 66, 66, 66, 66, 66>>  \* 11 bytes

File(data) == [isDir |-> FALSE, data |-> data]
SubDir == [isDir |-> TRUE, data |-> <<>>]

RECURSIVE Repeat(_, _)
\* n copies of s
Repeat(s, n) ==
    IF n = 0 THEN <<>>
    ELSE LET half == Repeat(s, n \div 2)
         IN  half \o half \o (IF n % 2 = 1 THEN s ELSE <<>>)

\* a regular file written run-length: the bytes head, then n bytes b, then tail
RunFile(head, n, b, tail) ==
    [isDir |-> FALSE, data |-> head, run |-> [n |-> n, b |-> b], tail |-> tail]

\* the bytes a read of the entry delivers
Bytes(e) ==
    IF "run" \in DOMAIN e THEN e.data \o Repeat(<<e.run.b>>, e.run.n) \o e.tail
    ELSE e.data

EntryUniverse ==
    { SubDir,
      \* "AABAAAAAAB\nAAAAAAAA\n"
      File(RecB \o <<NL>> \o RecA \o <<NL>>),
      \* "BBBBBBBBBB\nAAAAAAAA\nAAAAAAAA"    (duplicate line, no final newline)
      File(RecC \o <<NL>> \o RecA \o <<NL>> \o RecA),
      \* "AAAAAAA\r\n\nBBBBBBBBBBB\n"        (7 bytes with CRLF, empty line, 11 bytes)
      File(RecShort \o <<13, NL, NL>> \o RecLong \o <<NL>>),
      \* "AAAA|BBBB\nBBBBBBBBBB\r\n"         (delimiter inside a record, CRLF)
      File(RecPipe \o <<NL>> \o RecC \o <<13, NL>>) }

RECURSIVE SeqsUpTo(_, _)
SeqsUpTo(S, n) ==
    IF n = 0 THEN {<<>>}
    ELSE LET shorter == SeqsUpTo(S, n - 1)
         IN  shorter \cup {Append(s, x) : s \in {t \in shorter : Len(t) = n - 1}, x \in S}

Directories == SeqsUpTo(EntryUniverse, MaxEntries)

WorkerArgs == (0 - 1) .. MaxWorkers

(***************************************************************************)
(* State.                                                                  *)
(***************************************************************************)
VARIABLES
    dirEntries,       \* the input directory, in os.ReadDir order
    outFile,          \* content of the --output path, or NoFile
    secondRun,        \* the tool has been invoked a second time on the same directory
    prevCodes,        \* list returned by the first invocation
    prevOut,          \* output file left by the first invocation
    pc,               \* position of the main goroutine
    exitCode,         \* -1 while the process runs, else its exit status
    ret,              \* (validCodes, err) being returned by FindValidCodesHashPartition
    files,            \* source index + 1 -> position in dirEntries
    scratch,          \* "none" | "exists" | "removed"
    created,          \* spill files bucket_000 .. bucket_(created-1) exist
    bucketHandles,    \* spill file handles held open by partitionFiles
    bufs,             \* bucket -> bytes pending in its bufio.Writer
    writerErr,        \* buckets whose bufio.Writer holds a sticky error
    disk,             \* bucket -> bytes of its spill file (absent: empty)
    fileIdx,          \* 1-based position in files of the input being partitioned
    inputOpen,        \* the input file handle is open
    toks,             \* tokens the scanner delivers for the current input
    scanErr,          \* scanner.Err() after the last token
    lineNo,           \* tokens consumed from the current input
    workers,          \* the workers argument
    workerPoolSize,
    bucketPaths,      \* work queue (bucket numbers stand for their paths)
    pathsClosed,
    results,          \* results channel
    resultsClosed,
    wstate,           \* worker -> [pc, path, codes]
    egErr,            \* first error recorded by the errgroup
    bucketNum,        \* next bucket the dispatch loop will stat
    bucketsProcessed,
    collector,        \* "none" | "running" | "done"
    allValidCodes,
    resultCount,
    progress,         \* progressCallback: number of invocations, goroutine of the last one
    call              \* a direct call of one function: its name, arguments and results

ioVars == <<dirEntries, outFile, secondRun, prevCodes, prevOut>>
envVars == <<ioVars, progress, call>>
partVars == <<files, created, bucketHandles, bufs, writerErr, disk,
              fileIdx, inputOpen, toks, scanErr, lineNo>>
poolVars == <<workers, workerPoolSize, bucketPaths, pathsClosed, results, resultsClosed,
              wstate, egErr, bucketNum, bucketsProcessed, collector, allValidCodes,
              resultCount>>
vars == <<envVars, pc, exitCode, ret, scratch, partVars, poolVars>>

Returned(codes, err) == [codes |-> codes, err |-> err]

NoProgress == [n |-> 0, by |-> "none", set |-> TRUE]

\* progressCallback == nil
NilCallback == [n |-> 0, by |-> "none", set |-> FALSE]
NoCall == [fn |-> "none"]

progressCallback_Unguarded(g, k) == [progress EXCEPT !.n = @ + k, !.by = g]

\* if progressCallback != nil { progressCallback(msg) }, k times in a row by
\* goroutine g
progressCallback(g, k) ==
    IF progress.set THEN [progress EXCEPT !.n = @ + k, !.by = g] ELSE progress

\* state of one process invocation before main runs
FreshRun ==
    /\ pc = "main" /\ exitCode = 0 - 1 /\ ret = Returned(<<>>, NoErr)
    /\ files = <<>> /\ scratch = "none" /\ created = 0 /\ bucketHandles = 0
    /\ bufs = EmptyMap /\ writerErr = {} /\ disk = EmptyMap
    /\ fileIdx = 0 /\ inputOpen = FALSE /\ toks = <<>> /\ scanErr = FALSE /\ lineNo = 0
    /\ workers = 0 /\ workerPoolSize = 0 /\ bucketPaths = <<>> /\ pathsClosed = FALSE
    /\ results = <<>> /\ resultsClosed = FALSE /\ wstate = <<>> /\ egErr = NoErr
    /\ bucketNum = 0 /\ bucketsProcessed = 0 /\ collector = "none"
    /\ allValidCodes = <<>> /\ resultCount = 0

Init ==
    /\ dirEntries \in Directories
    /\ outFile = NoFile /\ secondRun = FALSE /\ prevCodes = <<>> /\ prevOut = NoFile
    /\ call = NoCall
    /\ progress = NoProgress
    /\ FreshRun

Running == exitCode = 0 - 1

(***************************************************************************)
(* cmd/precompute main and FindValidCodesHashPartition.                    *)
(***************************************************************************)
\* main up to the call: the --input directory is stat-ed first
MainStart ==
    /\ pc = "main" /\ Running
    /\ \/ /\ pc' = "readdir" /\ UNCHANGED exitCode
       \/ /\ pc' = "exit_nodir" /\ exitCode' = 1    \* os.IsNotExist: exit 1
    /\ UNCHANGED <<envVars, ret, scratch, partVars, poolVars>>

RECURSIVE FilesOf(_, _)
FilesOf_KeepDirs(entries, i) == [k \in 1 .. (Len(entries) - i + 1) |-> i + k - 1]

\* positions of the non-directory entries, in listing order
FilesOf(entries, i) ==
    IF i > Len(entries) THEN <<>>
    ELSE IF entries[i].isDir THEN FilesOf(entries, i + 1)
    ELSE <<i>> \o FilesOf(entries, i + 1)

NoInputs_Unchecked(fs) == FALSE

\* len(files) == 0
NoInputs(fs) == Len(fs) = 0

ReadDir ==
    /\ pc = "readdir"
    /\ \/ /\ ret' = Returned(<<>>, <<"readdir">>)
          /\ pc' = "main_ret"
          /\ UNCHANGED files
       \/ /\ files' = FilesOf(dirEntries, 1)
          /\ IF NoInputs(files')
             THEN ret' = Returned(<<>>, <<"nofiles">>) /\ pc' = "main_ret"
             ELSE pc' = "mkdirtemp" /\ UNCHANGED ret
    /\ UNCHANGED <<envVars, exitCode, scratch, created, bucketHandles, bufs, writerErr,
                   disk, fileIdx, inputOpen, toks, scanErr, lineNo, poolVars>>

MkdirTemp ==
    /\ pc = "mkdirtemp"
    /\ \/ /\ ret' = Returned(<<>>, <<"mkdirtemp">>)
          /\ pc' = "main_ret"
          /\ UNCHANGED <<scratch, progress>>
       \/ /\ scratch' = "exists"
          /\ progress' = progressCallback("main", 1)        \* "Phase 1: ..."
          /\ pc' = "create"
          /\ UNCHANGED ret
    /\ UNCHANGED <<ioVars, call, exitCode, partVars, poolVars>>

RemoveScratch_KeepOnError ==
    /\ pc = "fv_defer"
    /\ IF ret.err = NoErr
       THEN scratch' = "removed" /\ created' = 0 /\ disk' = EmptyMap
       ELSE UNCHANGED <<scratch, created, disk>>
    /\ pc' = "main_ret"
    /\ UNCHANGED <<envVars, exitCode, ret, files, bucketHandles, bufs, writerErr,
                   fileIdx, inputOpen, toks, scanErr, lineNo, poolVars>>

\* defer os.RemoveAll(tempDir), run by every return after the directory was made
RemoveScratch ==
    /\ pc = "fv_defer"
    /\ scratch' = "removed" /\ created' = 0 /\ disk' = EmptyMap
    /\ pc' = "main_ret"
    /\ UNCHANGED <<envVars, exitCode, ret, files, bucketHandles, bufs, writerErr,
                   fileIdx, inputOpen, toks, scanErr, lineNo, poolVars>>

MainAfterFind_WriteAnyway ==
    /\ pc = "main_ret"
    /\ pc' = "write"
    /\ UNCHANGED <<envVars, exitCode, ret, scratch, partVars, poolVars>>

\* main: if err != nil { os.Exit(1) }
MainAfterFind ==
    /\ pc = "main_ret"
    /\ IF ret.err # NoErr
       THEN pc' = "exit" /\ exitCode' = 1 /\ UNCHANGED progress
       ELSE /\ pc' = "write" /\ UNCHANGED exitCode
            /\ progress' = progressCallback("main", 1)      \* "Writing output file..."
    /\ UNCHANGED <<ioVars, call, ret, scratch, partVars, poolVars>>

\* main: WriteTextFile(validCodes, outputFile), then the summary and exit 0
WriteOutput ==
    /\ pc = "write"
    /\ \/ /\ outFile' = TextFileContent(ret.codes)
          /\ exitCode' = 0
       \/ /\ outFile' \in {outFile, <<>>}           \* os.WriteFile failed
          /\ exitCode' = 1
    /\ pc' = "exit"
    /\ UNCHANGED <<dirEntries, secondRun, prevCodes, prevOut, progress, call, ret, scratch,
                   partVars, poolVars>>

(***************************************************************************)
(* partitionFiles.                                                         *)
(***************************************************************************)
\* the creation loop: all numBuckets spill files, or os.Create fails at file i
\* (the files opened so far are flushed and closed before the return)
CreateBuckets ==
    /\ pc = "create"
    /\ \/ /\ created' = numBuckets /\ bucketHandles' = numBuckets
          /\ fileIdx' = 1
          /\ pc' = "files"
          /\ UNCHANGED ret
       \/ \E i \in {0, numBuckets - 1} :
             /\ created' = i /\ bucketHandles' = 0
             /\ ret' = Returned(<<>>, <<"create", i>>)
             /\ pc' = "fv_defer"
             /\ UNCHANGED fileIdx
    /\ UNCHANGED <<envVars, exitCode, scratch, files, bufs, writerErr, disk,
                   inputOpen, toks, scanErr, lineNo, poolVars>>

OpenInput_DropTooLong ==
    /\ pc = "files" /\ fileIdx <= Len(files)
    /\ LET data == Bytes(dirEntries[files[fileIdx]]) IN
       \/ /\ ret' = Returned(<<>>, <<"open", fileIdx - 1>>)
          /\ pc' = "pf_defer"
          /\ UNCHANGED <<inputOpen, toks, scanErr, lineNo>>
       \/ /\ inputOpen' = TRUE
          /\ LET sc == ScanLines(data, scannerMaxBuffer)
             IN  toks' = sc.toks /\ scanErr' = FALSE
          /\ lineNo' = 0
          /\ pc' = "scan"
          /\ UNCHANGED ret
       \/ \E cut \in {0, Len(data)} :
             /\ inputOpen' = TRUE
             /\ toks' = ScanLines(SubSeq(data, 1, cut), scannerMaxBuffer).toks
             /\ scanErr' = TRUE
             /\ lineNo' = 0
             /\ pc' = "scan"
             /\ UNCHANGED ret
    /\ progress' = progressCallback("main", 1)      \* "Partitioning file i/n" precedes os.Open
    /\ UNCHANGED <<ioVars, call, exitCode, scratch, files, created, bucketHandles, bufs,
                   writerErr, disk, fileIdx, poolVars>>

\* os.Open of the next input and the scanner set up on it.  A read error of
\* the underlying file ends the token stream with scanner.Err() set: the
\* scanner still delivers the tokens of the bytes it had read.
OpenInput ==
    /\ pc = "files" /\ fileIdx <= Len(files)
    /\ LET data == Bytes(dirEntries[files[fileIdx]]) IN
       \/ /\ ret' = Returned(<<>>, <<"open", fileIdx - 1>>)
          /\ pc' = "pf_defer"
          /\ UNCHANGED <<inputOpen, toks, scanErr, lineNo>>
       \/ /\ inputOpen' = TRUE
          /\ LET sc == ScanLines(data, scannerMaxBuffer)
             IN  toks' = sc.toks /\ scanErr' = sc.err
          /\ lineNo' = 0
          /\ pc' = "scan"
          /\ UNCHANGED ret
       \/ \E cut \in {0, Len(data)} :
             /\ inputOpen' = TRUE
             /\ toks' = ScanLines(SubSeq(data, 1, cut), scannerMaxBuffer).toks
             /\ scanErr' = TRUE
             /\ lineNo' = 0
             /\ pc' = "scan"
             /\ UNCHANGED ret
    /\ progress' = progressCallback("main", 1)      \* "Partitioning file i/n" precedes os.Open
    /\ UNCHANGED <<ioVars, call, exitCode, scratch, files, created, bucketHandles, bufs,
                   writerErr, disk, fileIdx, poolVars>>

BucketNum_Length(code) == Len(code) % numBuckets

\* bucketNum := hashCode(code, numBuckets)
BucketNum(code) == hashCode(code, numBuckets)

\* "Processed nM codes": every progressReportInterval lines read from the file
PeriodicReport(fileCodesRead) ==
    IF fileCodesRead % progressReportInterval = 0 THEN progressCallback("main", 1)
    ELSE progress

\* the body of the scan loop for one token; bufio.Writer.WriteString flushes
\* to the file only when the entry does not fit in the buffer
PartitionLine ==
    /\ pc = "scan" /\ lineNo < Len(toks)
    /\ LET code  == toks[lineNo + 1]
           b     == BucketNum(code)
           entry == SpillEntry(code, fileIdx - 1)
           buf   == Get(bufs, b)
           avail == writerBufSize - Len(buf)
       IN  IF Len(code) = 0 \/ ~LengthOK(code)
           THEN /\ lineNo' = lineNo + 1
                /\ UNCHANGED <<bufs, writerErr, disk, inputOpen, ret, pc, progress>>
           ELSE IF Len(entry) <= avail
           THEN /\ bufs' = Put(bufs, b, buf \o entry)
                /\ lineNo' = lineNo + 1
                /\ progress' = PeriodicReport(lineNo + 1)
                /\ UNCHANGED <<writerErr, disk, inputOpen, ret, pc>>
           ELSE \/ /\ disk' = Put(disk, b, Get(disk, b) \o buf \o SubSeq(entry, 1, avail))
                   /\ bufs' = Put(bufs, b, SubSeq(entry, avail + 1, Len(entry)))
                   /\ lineNo' = lineNo + 1
                   /\ progress' = PeriodicReport(lineNo + 1)
                   /\ UNCHANGED <<writerErr, inputOpen, ret, pc>>
                \/ /\ writerErr' = writerErr \cup {b}        \* the flush failed
                   /\ inputOpen' = FALSE                      \* f.Close()
                   /\ ret' = Returned(<<>>, <<"write", b>>)
                   /\ pc' = "pf_defer"
                   /\ UNCHANGED <<bufs, disk, lineNo, progress>>
    /\ UNCHANGED <<ioVars, call, exitCode, scratch, files, created, bucketHandles,
                   fileIdx, toks, scanErr, poolVars>>

EndOfInput_LeaveOpen ==
    /\ pc = "scan" /\ lineNo = Len(toks)
    /\ IF scanErr
       THEN /\ ret' = Returned(<<>>, <<"read", fileIdx - 1>>)
            /\ pc' = "pf_defer"
            /\ UNCHANGED <<fileIdx, progress>>
       ELSE /\ fileIdx' = fileIdx + 1
            /\ progress' = progressCallback("main", 1)
            /\ pc' = "files"
            /\ UNCHANGED ret
    /\ UNCHANGED <<ioVars, call, exitCode, scratch, files, created, bucketHandles, bufs,
                   writerErr, disk, inputOpen, toks, scanErr, lineNo, poolVars>>

\* after the loop: f.Close(), then scanner.Err()
EndOfInput ==
    /\ pc = "scan" /\ lineNo = Len(toks)
    /\ inputOpen' = FALSE
    /\ IF scanErr
       THEN /\ ret' = Returned(<<>>, <<"read", fileIdx - 1>>)
            /\ pc' = "pf_defer"
            /\ UNCHANGED <<fileIdx, progress>>
       ELSE /\ fileIdx' = fileIdx + 1
            /\ progress' = progressCallback("main", 1)      \* "File i complete"
            /\ pc' = "files"
            /\ UNCHANGED ret
    /\ UNCHANGED <<ioVars, call, exitCode, scratch, files, created, bucketHandles, bufs,
                   writerErr, disk, toks, scanErr, lineNo, poolVars>>

Flushed_Dropped(bs) == disk

\* spill files after the writers of the buckets in bs were flushed
Flushed(bs) ==
    [b \in DOMAIN disk \cup bs |->
        IF b \in bs THEN Get(disk, b) \o Get(bufs, b) ELSE disk[b]]

Pending == {b \in DOMAIN bufs : Len(bufs[b]) > 0}

\* the explicit flush loop; Flush of a non-empty buffer may fail at bucket f
FlushWriters ==
    /\ pc = "files" /\ fileIdx > Len(files)
    /\ \/ /\ disk' = Flushed(Pending)
          /\ bufs' = EmptyMap
          /\ progress' = progressCallback("main", 1)        \* "Partitioning complete"
          /\ UNCHANGED <<ret, writerErr>>
       \/ \E f \in Pending :
             LET before == {b \in Pending : b < f} IN
             /\ disk' = Flushed(before)
             /\ bufs' = [b \in DOMAIN bufs \ before |-> bufs[b]]
             /\ writerErr' = writerErr \cup {f}
             /\ ret' = Returned(<<>>, <<"flush", f>>)
             /\ UNCHANGED progress
    /\ pc' = "pf_defer"
    /\ UNCHANGED <<ioVars, call, exitCode, scratch, files, created, bucketHandles,
                   fileIdx, inputOpen, toks, scanErr, lineNo, poolVars>>

PartitionReturn_StartAnyway ==
    /\ pc = "pf_defer"
    /\ disk' = Flushed(Pending \ writerErr)
    /\ bufs' = EmptyMap
    /\ bucketHandles' = 0
    /\ pc' = "pb_start"
    /\ progress' = progressCallback("main", 1)
    /\ UNCHANGED <<ioVars, call, exitCode, ret, scratch, files, created, writerErr,
                   fileIdx, inputOpen, toks, scanErr, lineNo, poolVars>>

\* the deferred loop of partitionFiles (Flush, errors ignored, and Close of
\* every spill file), then the return to FindValidCodesHashPartition
PartitionReturn ==
    /\ pc = "pf_defer"
    /\ disk' = Flushed(Pending \ writerErr)
    /\ bufs' = EmptyMap
    /\ bucketHandles' = 0
    /\ pc' = IF ret.err = NoErr THEN "pb_start" ELSE "fv_defer"
    /\ progress' = IF ret.err = NoErr THEN progressCallback("main", 1)   \* "Phase 2: ..."
                   ELSE progress
    /\ UNCHANGED <<ioVars, call, exitCode, ret, scratch, files, created, writerErr,
                   fileIdx, inputOpen, toks, scanErr, lineNo, poolVars>>

(***************************************************************************)
(* processBuckets: orchestrator side.                                      *)
(***************************************************************************)
WorkerPoolSize_NoDefault(w, ncpu) == w

\* workerPoolSize := workers; if workerPoolSize <= 0 { runtime.NumCPU() }
WorkerPoolSize(w, ncpu) == IF w <= 0 THEN ncpu ELSE w

\* make(chan string, numBuckets)
bucketPathsCap == numBuckets

\* make(chan []string, workerPoolSize)
resultsCap == workerPoolSize

IdleWorker == [pc |-> "recv", path |-> 0 - 1, codes |-> <<>>]

\* pool size, channels, and eg.Go for every worker
StartPool ==
    /\ pc = "pb_start"
    /\ \E w \in WorkerArgs, ncpu \in 1..MaxCPU :
          /\ workers' = w
          /\ workerPoolSize' = WorkerPoolSize(w, ncpu)
          /\ wstate' = [i \in 1..WorkerPoolSize(w, ncpu) |-> IdleWorker]
    /\ bucketPaths' = <<>> /\ results' = <<>>
    /\ bucketNum' = 0 /\ bucketsProcessed' = 0
    /\ pc' = "dispatch"
    /\ UNCHANGED <<envVars, exitCode, ret, scratch, partVars, pathsClosed, resultsClosed,
                   egErr, collector, allValidCodes, resultCount>>

\* buckets from bucketNum on whose spill file exists with non-zero size
NonEmptyFrom(n) == {b \in DOMAIN disk : b >= n /\ b < created /\ Len(disk[b]) > 0}

Least(S) == CHOOSE x \in S : \A y \in S : x <= y

Dispatch_EnqueueTwice ==
    /\ pc = "dispatch" /\ bucketNum < numBuckets
    /\ \/ /\ NonEmptyFrom(bucketNum) # {}
          /\ Len(bucketPaths) < bucketPathsCap
          /\ LET b == Least(NonEmptyFrom(bucketNum)) IN
             /\ bucketPaths' = Append(Append(bucketPaths, b), b)
             /\ bucketNum' = b + 1
          /\ bucketsProcessed' = bucketsProcessed + 1
          /\ UNCHANGED <<ret, pc>>
       \/ /\ ret' = Returned(<<>>, <<"stat", bucketNum>>)
          /\ pc' = "fv_defer"
          /\ UNCHANGED <<bucketPaths, bucketNum, bucketsProcessed>>
    /\ UNCHANGED <<envVars, exitCode, scratch, partVars, workers, workerPoolSize,
                   pathsClosed, results, resultsClosed, wstate, egErr, collector,
                   allValidCodes, resultCount>>

\* the dispatch loop up to and including the next send on bucketPaths
\* (the buckets skipped on the way are empty), or a failing os.Stat
Dispatch ==
    /\ pc = "dispatch" /\ bucketNum < numBuckets
    /\ \/ /\ NonEmptyFrom(bucketNum) # {}
          /\ Len(bucketPaths) < bucketPathsCap
          /\ LET b == Least(NonEmptyFrom(bucketNum)) IN
             /\ bucketPaths' = Append(bucketPaths, b)
             /\ bucketNum' = b + 1
          /\ bucketsProcessed' = bucketsProcessed + 1
          /\ UNCHANGED <<ret, pc>>
       \/ /\ ret' = Returned(<<>>, <<"stat", bucketNum>>)
          /\ pc' = "fv_defer"
          /\ UNCHANGED <<bucketPaths, bucketNum, bucketsProcessed>>
    /\ UNCHANGED <<envVars, exitCode, scratch, partVars, workers, workerPoolSize,
                   pathsClosed, results, resultsClosed, wstate, egErr, collector,
                   allValidCodes, resultCount>>

ClosePaths_Forgotten ==
    /\ pc = "dispatch"
    /\ bucketNum = numBuckets \/ NonEmptyFrom(bucketNum) = {}
    /\ bucketNum' = numBuckets
    /\ pc' = "collect"
    /\ UNCHANGED <<envVars, exitCode, ret, scratch, partVars, workers, workerPoolSize,
                   bucketPaths, pathsClosed, results, resultsClosed, wstate, egErr,
                   bucketsProcessed, collector, allValidCodes, resultCount>>

\* the rest of the loop (only empty buckets are left) and close(bucketPaths)
ClosePaths ==
    /\ pc = "dispatch"
    /\ bucketNum = numBuckets \/ NonEmptyFrom(bucketNum) = {}
    /\ bucketNum' = numBuckets
    /\ pathsClosed' = TRUE
    /\ pc' = "collect"
    /\ UNCHANGED <<envVars, exitCode, ret, scratch, partVars, workers, workerPoolSize,
                   bucketPaths, results, resultsClosed, wstate, egErr,
                   bucketsProcessed, collector, allValidCodes, resultCount>>

\* go func() { ... }() : the collector goroutine is started
StartCollector ==
    /\ pc = "collect"
    /\ collector' = "running"
    /\ pc' = "wait"
    /\ UNCHANGED <<envVars, exitCode, ret, scratch, partVars, workers, workerPoolSize,
                   bucketPaths, pathsClosed, results, resultsClosed, wstate, egErr,
                   bucketNum, bucketsProcessed, allValidCodes, resultCount>>

WorkerReturned(w) == wstate[w].pc \in {"done", "failed"}

\* errgroup.Wait returns once every goroutine started with Go has returned
AllWorkersReturned == \A w \in DOMAIN wstate : WorkerReturned(w)

WaitWorkers_NoWait ==
    /\ pc = "wait"
    /\ IF egErr # NoErr
       THEN ret' = Returned(<<>>, egErr) /\ pc' = "fv_defer"
       ELSE pc' = "close_results" /\ UNCHANGED ret
    /\ UNCHANGED <<envVars, exitCode, scratch, partVars, poolVars>>

\* if err := eg.Wait(); err != nil { return nil, err }
WaitWorkers ==
    /\ pc = "wait"
    /\ AllWorkersReturned
    /\ IF egErr # NoErr
       THEN ret' = Returned(<<>>, egErr) /\ pc' = "fv_defer"
       ELSE pc' = "close_results" /\ UNCHANGED ret
    /\ UNCHANGED <<envVars, exitCode, scratch, partVars, poolVars>>

CloseResults_Reporting ==
    /\ pc = "close_results"
    /\ resultsClosed' = TRUE
    /\ progress' = progressCallback("main", 1)
    /\ pc' = "wait_done"
    /\ UNCHANGED <<ioVars, call, exitCode, ret, scratch, partVars, workers, workerPoolSize,
                   bucketPaths, pathsClosed, results, wstate, egErr, bucketNum,
                   bucketsProcessed, collector, allValidCodes, resultCount>>

\* close(results)
CloseResults ==
    /\ pc = "close_results"
    /\ resultsClosed' = TRUE
    /\ pc' = "wait_done"
    /\ UNCHANGED <<envVars, exitCode, ret, scratch, partVars, workers, workerPoolSize,
                   bucketPaths, pathsClosed, results, wstate, egErr, bucketNum,
                   bucketsProcessed, collector, allValidCodes, resultCount>>

SortAndReturn_BeforeDone ==
    /\ pc = "wait_done"
    /\ allValidCodes' = SortStrings(allValidCodes)
    /\ ret' = Returned(allValidCodes', NoErr)
    /\ progress' = progressCallback("main", 2)    \* "Processing complete", "Found n valid codes"
    /\ pc' = "fv_defer"
    /\ UNCHANGED <<ioVars, call, exitCode, scratch, partVars, workers, workerPoolSize,
                   bucketPaths, pathsClosed, results, resultsClosed, wstate, egErr,
                   bucketNum, bucketsProcessed, collector, resultCount>>

\* <-done; sort.Strings(allValidCodes); return allValidCodes, nil
SortAndReturn ==
    /\ pc = "wait_done"
    /\ collector = "done"
    /\ allValidCodes' = SortStrings(allValidCodes)
    /\ ret' = Returned(allValidCodes', NoErr)
    /\ progress' = progressCallback("main", 2)    \* "Processing complete", "Found n valid codes"
    /\ pc' = "fv_defer"
    /\ UNCHANGED <<ioVars, call, exitCode, scratch, partVars, workers, workerPoolSize,
                   bucketPaths, pathsClosed, results, resultsClosed, wstate, egErr,
                   bucketNum, bucketsProcessed, collector, resultCount>>

(***************************************************************************)
(* processBucketsWorker (one errgroup goroutine) and the collector.        *)
(***************************************************************************)
WorkerRecv_SendsOnExit(w) ==
    /\ Running
    /\ w \in DOMAIN wstate /\ wstate[w].pc = "recv"
    /\ \/ /\ Len(bucketPaths) > 0
          /\ wstate' = [wstate EXCEPT ![w] = [pc |-> "reduce", path |-> Head(bucketPaths),
                                              codes |-> <<>>]]
          /\ bucketPaths' = Tail(bucketPaths)
          /\ UNCHANGED results
       \/ /\ Len(bucketPaths) = 0 /\ pathsClosed
          /\ wstate' = [wstate EXCEPT ![w].pc = "done"]
          /\ results' = Append(results, <<>>)
          /\ UNCHANGED bucketPaths
    /\ UNCHANGED <<envVars, pc, exitCode, ret, scratch, partVars, workers, workerPoolSize,
                   pathsClosed, resultsClosed, egErr, bucketNum,
                   bucketsProcessed, collector, allValidCodes, resultCount>>

\* for path := range bucketPath : dequeue, or leave the loop and return nil
WorkerRecv(w) ==
    /\ Running
    /\ w \in DOMAIN wstate /\ wstate[w].pc = "recv"
    /\ \/ /\ Len(bucketPaths) > 0
          /\ wstate' = [wstate EXCEPT ![w] = [pc |-> "reduce", path |-> Head(bucketPaths),
                                              codes |-> <<>>]]
          /\ bucketPaths' = Tail(bucketPaths)
       \/ /\ Len(bucketPaths) = 0 /\ pathsClosed
          /\ wstate' = [wstate EXCEPT ![w].pc = "done"]
          /\ UNCHANGED bucketPaths
    /\ UNCHANGED <<envVars, pc, exitCode, ret, scratch, partVars, workers, workerPoolSize,
                   pathsClosed, results, resultsClosed, egErr, bucketNum,
                   bucketsProcessed, collector, allValidCodes, resultCount>>

\* errgroup: errOnce.Do(func() { g.err = err })
RecordError(e) == IF egErr = NoErr THEN e ELSE egErr

WorkerReduce_ContinueOnError(w) ==
    /\ Running
    /\ w \in DOMAIN wstate /\ wstate[w].pc = "reduce"
    /\ LET b == wstate[w].path
           r == processBucket(Get(disk, b))
       IN  \/ /\ wstate' = [wstate EXCEPT ![w].pc = "recv"]
              /\ egErr' = RecordError(<<"bucket", b>>)
           \/ /\ scratch = "exists" /\ ~r.err
              /\ wstate' = [wstate EXCEPT ![w].pc = "send", ![w].codes = r.codes]
              /\ UNCHANGED egErr
    /\ UNCHANGED <<envVars, pc, exitCode, ret, scratch, partVars, workers, workerPoolSize,
                   bucketPaths, pathsClosed, results, resultsClosed, bucketNum,
                   bucketsProcessed, collector, allValidCodes, resultCount>>

\* processBucket(path): the codes to send, or an error that ends the worker
WorkerReduce(w) ==
    /\ Running
    /\ w \in DOMAIN wstate /\ wstate[w].pc = "reduce"
    /\ LET b == wstate[w].path
           r == processBucket(Get(disk, b))
       IN  \/ /\ wstate' = [wstate EXCEPT ![w].pc = "failed"]      \* open or read failed
              /\ egErr' = RecordError(<<"bucket", b>>)
           \/ /\ scratch = "exists" /\ ~r.err
              /\ wstate' = [wstate EXCEPT ![w].pc = "send", ![w].codes = r.codes]
              /\ UNCHANGED egErr
    /\ UNCHANGED <<envVars, pc, exitCode, ret, scratch, partVars, workers, workerPoolSize,
                   bucketPaths, pathsClosed, results, resultsClosed, bucketNum,
                   bucketsProcessed, collector, allValidCodes, resultCount>>

WorkerSend_DropWhenFull(w) ==
    /\ Running
    /\ w \in DOMAIN wstate /\ wstate[w].pc = "send"
    /\ results' = IF Len(results) < resultsCap THEN Append(results, wstate[w].codes)
                  ELSE results
    /\ wstate' = [wstate EXCEPT ![w].pc = "recv", ![w].codes = <<>>]
    /\ UNCHANGED <<envVars, pc, exitCode, ret, scratch, partVars, workers, workerPoolSize,
                   bucketPaths, pathsClosed, resultsClosed, egErr, bucketNum,
                   bucketsProcessed, collector, allValidCodes, resultCount>>

\* results <- validCodes  (a send on a closed channel panics)
WorkerSend(w) ==
    /\ Running
    /\ w \in DOMAIN wstate /\ wstate[w].pc = "send"
    /\ IF resultsClosed
       THEN /\ wstate' = [wstate EXCEPT ![w].pc = "panic"]
            /\ UNCHANGED results
       ELSE /\ Len(results) < resultsCap
            /\ results' = Append(results, wstate[w].codes)
            /\ wstate' = [wstate EXCEPT ![w].pc = "recv", ![w].codes = <<>>]
    /\ UNCHANGED <<envVars, pc, exitCode, ret, scratch, partVars, workers, workerPoolSize,
                   bucketPaths, pathsClosed, resultsClosed, egErr, bucketNum,
                   bucketsProcessed, collector, allValidCodes, resultCount>>

Worker(w) == WorkerRecv(w) \/ WorkerReduce(w) \/ WorkerSend(w)

\* for codes := range results : append, or leave the loop and close(done)
Collector ==
    /\ Running
    /\ collector = "running"
    /\ \/ /\ Len(results) > 0
          /\ allValidCodes' = allValidCodes \o Head(results)
          /\ results' = Tail(results)
          /\ resultCount' = resultCount + 1
          /\ progress' = IF resultCount' % 100 = 0 \/ resultCount' = bucketsProcessed
                         THEN progressCallback("collector", 1)
                         ELSE progress
          /\ UNCHANGED collector
       \/ /\ Len(results) = 0 /\ resultsClosed
          /\ collector' = "done"
          /\ UNCHANGED <<allValidCodes, results, resultCount, progress>>
    /\ UNCHANGED <<ioVars, call, pc, exitCode, ret, scratch, partVars, workers, workerPoolSize,
                   bucketPaths, pathsClosed, resultsClosed, wstate, egErr, bucketNum,
                   bucketsProcessed>>

(***************************************************************************)
(* The tool is run again on the same directory after a successful run.     *)
(***************************************************************************)
Rerun ==
    /\ pc = "exit" /\ exitCode = 0 /\ ~secondRun
    /\ secondRun' = TRUE
    /\ prevCodes' = ret.codes
    /\ prevOut' = outFile
    /\ pc' = "main" /\ exitCode' = 0 - 1 /\ ret' = Returned(<<>>, NoErr)
    /\ files' = <<>> /\ scratch' = "none" /\ created' = 0 /\ bucketHandles' = 0
    /\ bufs' = EmptyMap /\ writerErr' = {} /\ disk' = EmptyMap
    /\ fileIdx' = 0 /\ inputOpen' = FALSE /\ toks' = <<>> /\ scanErr' = FALSE /\ lineNo' = 0
    /\ workers' = 0 /\ workerPoolSize' = 0 /\ bucketPaths' = <<>> /\ pathsClosed' = FALSE
    /\ results' = <<>> /\ resultsClosed' = FALSE /\ wstate' = <<>> /\ egErr' = NoErr
    /\ bucketNum' = 0 /\ bucketsProcessed' = 0 /\ collector' = "none"
    /\ allValidCodes' = <<>> /\ resultCount' = 0
    \* a caller that passed no callback may pass one, or none, the second time
    /\ progress' \in (IF progress.set THEN {NoProgress} ELSE {NoProgress, NilCallback})
    /\ UNCHANGED <<dirEntries, outFile, call>>

MaxPool == IF MaxWorkers > MaxCPU THEN MaxWorkers ELSE MaxCPU

Orchestrator ==
    \/ MainStart \/ ReadDir \/ MkdirTemp \/ CreateBuckets \/ OpenInput
    \/ PartitionLine \/ EndOfInput \/ FlushWriters \/ PartitionReturn
    \/ StartPool \/ Dispatch \/ ClosePaths \/ StartCollector \/ WaitWorkers
    \/ CloseResults \/ SortAndReturn \/ RemoveScratch \/ MainAfterFind \/ WriteOutput

Next ==
    \/ Orchestrator
    \/ \E w \in 1..MaxPool : Worker(w)
    \/ Collector
    \/ Rerun

Spec == Init /\ [][Next]_vars

(***************************************************************************)
(* The same program over input files whose records hold spaces.            *)
(***************************************************************************)
RecGoodCode == <<71, 79, 79, 68, 32, 67, 79, 68, 69>>          \* "GOOD CODE"
RecSpaced == <<32, 83, 80, 65, 67, 69, 68, 32, 32>>            \* " SPACED  "
RecGoodCodeSp == <<71, 79, 79, 68, 32, 67, 79, 68, 69, 32>>    \* "GOOD CODE "
RecGoodcode == <<71, 79, 79, 68, 67, 79, 68, 69>>              \* "GOODCODE"

SpaceUniverse ==
    { \* "GOOD CODE\n SPACED  \n"
      File(RecGoodCode \o <<NL>> \o RecSpaced \o <<NL>>),
      \* " SPACED  \nGOOD CODE\nGOODCODE"
      File(RecSpaced \o <<NL>> \o RecGoodCode \o <<NL>> \o RecGoodcode),
      \* "GOODCODE\nGOOD CODE \n"
      File(RecGoodcode \o <<NL>> \o RecGoodCodeSp \o <<NL>>) }

SpaceDirectories == SeqsUpTo(SpaceUniverse, MaxEntries)

SpaceInit ==
    /\ dirEntries \in SpaceDirectories
    /\ outFile = NoFile /\ secondRun = FALSE /\ prevCodes = <<>> /\ prevOut = NoFile
    /\ call = NoCall
    /\ progress = NoProgress
    /\ FreshRun

SpaceSpec == SpaceInit /\ [][Next]_vars

(***************************************************************************)
(* The same program over an input file large enough for the entries of one *)
(* bucket to exceed the buffer of its bufio.Writer, so that WriteString     *)
(* flushes, and can fail, in the middle of the partitioning loop.           *)
(***************************************************************************)
\* "BBBBBBBBBB\n" and then BulkLines lines "AAAAAAAA\n"
BulkFile == File(RecC \o <<NL>> \o Repeat(RecA \o <<NL>>, BulkLines))

BulkDirectories == SeqsUpTo({BulkFile}, MaxEntries)

BulkInit ==
    /\ dirEntries \in BulkDirectories
    /\ outFile = NoFile /\ secondRun = FALSE /\ prevCodes = <<>> /\ prevOut = NoFile
    /\ call = NoCall
    /\ progress = NoProgress
    /\ FreshRun

BulkSpec == BulkInit /\ [][Next]_vars

\* "AAAAAAAA\n" and then a line of scannerMaxBuffer + 1 bytes
LongLineFile == RunFile(RecA \o <<NL>>, scannerMaxBuffer + 1, 65, <<NL>>)

LongEntries == {LongLineFile, File(RecB \o <<NL>> \o RecA \o <<NL>>)}

LongDirectories == SeqsUpTo(LongEntries, MaxEntries)

LongInit ==
    /\ dirEntries \in LongDirectories
    /\ outFile = NoFile /\ secondRun = FALSE /\ prevCodes = <<>> /\ prevOut = NoFile
    /\ call = NoCall
    /\ progress = NoProgress
    /\ FreshRun

LongSpec == LongInit /\ [][Next]_vars

(***************************************************************************)
(* Direct calls of single functions, with arguments drawn from bounded     *)
(* sets; the pipeline itself stays in its initial state.                   *)
(***************************************************************************)
runVars == <<ioVars, progress, pc, exitCode, ret, scratch, partVars, poolVars>>

Idle ==
    /\ dirEntries = <<>> /\ outFile = NoFile /\ secondRun = FALSE
    /\ prevCodes = <<>> /\ prevOut = NoFile
    /\ progress = NoProgress
    /\ FreshRun

HashBytes == {0, 97, 255}

HashInputs ==
    SeqsUpTo(HashBytes, MaxHashLen)
        \cup {<<102, 111, 111, 98, 97, 114>>, RecA, RecB, RecC}      \* "foobar"

HashBuckets == (1 .. MaxHashBuckets) \cup {numBuckets, 46340}

HashInit ==
    /\ Idle
    /\ \E code \in HashInputs, nb \in HashBuckets :
          call = [fn |-> "hashCode", code |-> code, nb |-> nb, out |-> <<>>]

\* hashCode(code, nb), called again with the same arguments
CallHashCode ==
    /\ call.fn = "hashCode" /\ Len(call.out) < MaxCalls
    /\ call' = [call EXCEPT !.out = Append(@, hashCode(call.code, call.nb))]
    /\ UNCHANGED runVars

HashSpec == HashInit /\ [][CallHashCode]_vars

\* lines of spill files: entries of records Z and Y, and lines with a negative
\* index, a signed index, no '|', two '|', a non-numeric index, no index, nothing
SpillLineUniverse ==
    { <<90, 124, 48>>,              \* "Z|0"
      <<90, 124, 49>>,              \* "Z|1"
      <<89, 124, 48>>,              \* "Y|0"
      <<89, 124, 49>>,              \* "Y|1"
      <<90, 124, 45, 49>>,          \* "Z|-1"
      <<89, 124, 43, 49>>,          \* "Y|+1"
      <<90>>,                       \* "Z"
      <<90, 124, 49, 124, 48>>,     \* "Z|1|0"
      <<90, 124, 97>>,              \* "Z|a"
      <<89, 124>>,                  \* "Y|"
      <<>> }

\* a file holding the given lines, with or without a final newline
FileOfLines(lines, finalNewline) ==
    JoinNL(lines) \o (IF finalNewline /\ Len(lines) > 0 THEN <<NL>> ELSE <<>>)

ReduceInit ==
    /\ Idle
    /\ \E lines \in SeqsUpTo(SpillLineUniverse, MaxSpillLines), nl \in BOOLEAN :
          call = [fn |-> "processBucket", lines |-> lines,
                  data |-> FileOfLines(lines, nl), out |-> <<>>]

\* validCodes, err := processBucket(path) on a readable spill file
CallProcessBucket ==
    /\ call.fn = "processBucket" /\ call.out = <<>>
    /\ call' = [call EXCEPT !.out = <<processBucket(call.data)>>]
    /\ UNCHANGED runVars

ReduceSpec == ReduceInit /\ [][CallProcessBucket]_vars

ReduceLoopInit ==
    /\ Idle
    /\ \E lines \in SeqsUpTo(SpillLineUniverse, MaxSpillLines) :
          call = [fn |-> "reduceLoop", lines |-> lines, at |-> 0,
                  st |-> [codeMap |-> EmptyMap, validCodes |-> <<>>]]

\* one pass of the body of `for scanner.Scan()` in processBucket
ReduceLoopBody ==
    /\ call.fn = "reduceLoop" /\ call.at < Len(call.lines)
    /\ call' = [call EXCEPT !.at = @ + 1, !.st = ReduceLine(@, call.lines[call.at + 1])]
    /\ UNCHANGED runVars

ReduceLoopSpec == ReduceLoopInit /\ [][ReduceLoopBody]_vars

\* the sequences that hold the lines of s in another order
Reorderings(s) ==
    {[i \in 1 .. Len(s) |-> s[p[i]]] : p \in Permutations(1 .. Len(s))}

PermuteInit ==
    /\ Idle
    /\ \E lines \in SeqsUpTo(SpillLineUniverse, MaxSpillLines), nl \in BOOLEAN :
          \E other \in Reorderings(lines) :
             call = [fn |-> "processBucketTwice", lines |-> lines, other |-> other,
                     data |-> <<FileOfLines(lines, TRUE), FileOfLines(other, nl)>>,
                     out |-> <<>>]

\* processBucket on a spill file, then on a file with the same lines reordered
CallProcessBucketTwice ==
    /\ call.fn = "processBucketTwice" /\ Len(call.out) < 2
    /\ call' = [call EXCEPT !.out = Append(@, processBucket(call.data[Len(@) + 1]))]
    /\ UNCHANGED runVars

PermuteSpec == PermuteInit /\ [][CallProcessBucketTwice]_vars

(***************************************************************************)
(* The earlier processBucket: one pass that records every source index of  *)
(* every record, then a pass over the map that keeps the records with two. *)
(***************************************************************************)
\* one iteration of the scan loop of the earlier processBucket
CollectLine(codeFiles, line) ==
    LET parts == Split(line, PIPE) IN
    IF Len(parts) # 2 THEN codeFiles
    ELSE LET code == parts[1]
             idx  == Atoi(parts[2])
         IN  IF ~idx.ok THEN codeFiles
             ELSE Put(codeFiles, code,
                      (IF code \in DOMAIN codeFiles THEN codeFiles[code] ELSE {}) \cup {idx.val})

RECURSIVE CollectLines(_, _, _)
CollectLines(codeFiles, lines, i) ==
    IF i > Len(lines) THEN codeFiles
    ELSE CollectLines(CollectLine(codeFiles, lines[i]), lines, i + 1)

InTwoFiles_One(fileSet) == Cardinality(fileSet) >= 1

\* len(fileSet) >= 2
InTwoFiles(fileSet) == Cardinality(fileSet) >= 2

\* the sequences that list each member of S once
Orderings(S) == {s \in [1 .. Cardinality(S) -> S] : Range(s) = S}

\* the results the earlier processBucket can return on a spill file holding
\* `data`: the map is ranged over in an unspecified order
processBucketTwoPass(data) ==
    LET sc        == ScanLines(data, bucketScannerMax)
        codeFiles == CollectLines(EmptyMap, sc.toks, 1)
        valid     == {code \in DOMAIN codeFiles : InTwoFiles(codeFiles[code])}
    IN  IF sc.err THEN {[codes |-> <<>>, err |-> TRUE]}
        ELSE {[codes |-> s, err |-> FALSE] : s \in Orderings(valid)}

\* every short spill file, and one in which two records are in two inputs:
\* "Z|0", "Y|0", "Y|1", "Z|1"
BothFiles ==
    SeqsUpTo(SpillLineUniverse, MaxSpillLines)
        \cup { << <<90, 124, 48>>, <<89, 124, 48>>, <<89, 124, 49>>, <<90, 124, 49>> >> }

BothInit ==
    /\ Idle
    /\ \E lines \in BothFiles, nl \in BOOLEAN :
          call = [fn |-> "processBucketBoth", lines |-> lines,
                  data |-> FileOfLines(lines, nl), out |-> <<>>, old |-> <<>>]

\* processBucket (early promotion) on the spill file
CallEarlyPromotion ==
    /\ call.fn = "processBucketBoth" /\ call.out = <<>>
    /\ call' = [call EXCEPT !.out = <<processBucket(call.data)>>]
    /\ UNCHANGED runVars

\* the earlier processBucket on the same spill file
CallTwoPass ==
    /\ call.fn = "processBucketBoth" /\ call.old = <<>>
    /\ \E r \in processBucketTwoPass(call.data) : call' = [call EXCEPT !.old = <<r>>]
    /\ UNCHANGED runVars

BothSpec == BothInit /\ [][CallEarlyPromotion \/ CallTwoPass]_vars

\* records handed to the writer: three of the inputs and a one-byte record
WriteRecords == {RecA, RecB, RecC, <<90>>}

\* what the output path holds before the call: nothing, an empty file, or an
\* older file longer than anything written here
OldOutputs == {NoFile, <<>>, RecLong \o <<NL>> \o RecLong \o <<NL>> \o RecLong \o <<NL>> \o RecLong}

WriteInit ==
    /\ Idle
    /\ \E codes \in SeqsUpTo(WriteRecords, MaxWriteRecords), old \in OldOutputs :
          call = [fn |-> "WriteTextFile", codes |-> codes, file |-> old, out |-> <<>>]

\* err := WriteTextFile(validCodes, outputPath)
CallWriteTextFile ==
    /\ call.fn = "WriteTextFile" /\ call.out = <<>>
    /\ \/ call' = [call EXCEPT !.file = TextFileContent(call.codes), !.out = <<NoErr>>]
       \/ \E left \in {call.file, <<>>} :              \* os.WriteFile failed
             call' = [call EXCEPT !.file = left, !.out = <<<<"write">>>>]
    /\ UNCHANGED runVars

WriteSpec == WriteInit /\ [][CallWriteTextFile]_vars

\* lines the scanner hands to the loop: a record of valid length, one too
\* short, one too long, and an empty line
ScanCodes == {RecA, RecShort, RecLong, <<>>}

\* lines of the file already read when the observed part of the loop begins
ScanStarts ==
    {0, progressReportInterval - 2, progressReportInterval - 1,
     2 * progressReportInterval - 1}

ScanInit ==
    /\ Idle
    /\ \E codes \in SeqsUpTo(ScanCodes, MaxScanLines), n \in ScanStarts :
          call = [fn |-> "scanLoop", codes |-> codes, start |-> n,
                  fileCodesRead |-> n, fileCodesPartitioned |-> 0, failed |-> FALSE]

\* one pass of the body of `for scanner.Scan()` in partitionFiles, with a
\* callback supplied
ScanLoopBody ==
    /\ call.fn = "scanLoop" /\ ~call.failed
    /\ call.fileCodesRead - call.start < Len(call.codes)
    /\ LET code == call.codes[call.fileCodesRead - call.start + 1]
           read == call.fileCodesRead + 1
       IN  IF Len(code) = 0 \/ ~LengthOK(code)
           THEN /\ call' = [call EXCEPT !.fileCodesRead = read]              \* continue
                /\ UNCHANGED progress
           ELSE \/ /\ call' = [call EXCEPT !.fileCodesRead = read,
                                            !.fileCodesPartitioned = @ + 1]
                   /\ progress' = PeriodicReport(read)
                \/ /\ call' = [call EXCEPT !.fileCodesRead = read,      \* WriteString failed
                                            !.failed = TRUE]
                   /\ UNCHANGED progress
    /\ UNCHANGED <<ioVars, pc, exitCode, ret, scratch, partVars, poolVars>>

ScanSpec == ScanInit /\ [][ScanLoopBody]_vars

(***************************************************************************)
(* The serving side reads the artifact back (cmd/server loadPromoCodes).   *)
(***************************************************************************)
NonEmptyLine(line) == line # <<>>

loadPromoCodes_Dedup(data) ==
    LET sc == ScanLines(data, bucketScannerMax)
        ls == SelectSeq(sc.toks, NonEmptyLine)
        keep == {k \in 1 .. Len(ls) : k = 1 \/ ls[k] # ls[k - 1]}
    IN  IF sc.err THEN [codes |-> <<>>, err |-> TRUE]
        ELSE [codes |-> [i \in 1 .. Cardinality(keep) |->
                           ls[CHOOSE k \in keep : Cardinality({m \in keep : m <= k}) = i]],
              err |-> FALSE]

\* loadPromoCodes on a readable file holding `data`: the non-empty lines of a
\* bufio.Scanner with the default limit, or the scanner's error
loadPromoCodes(data) ==
    LET sc == ScanLines(data, bucketScannerMax)
    IN  IF sc.err THEN [codes |-> <<>>, err |-> TRUE]
        ELSE [codes |-> SelectSeq(sc.toks, NonEmptyLine), err |-> FALSE]

\* records of bufio.MaxScanTokenSize - 1 and of bufio.MaxScanTokenSize bytes
LongestRecord == Repeat(<<65>>, bucketScannerMax - 1)
TooLongRecord == Repeat(<<65>>, bucketScannerMax)

\* "A\rB" (a carriage return inside), "A B " (spaces), and a one-byte record
RoundRecords == {RecA, RecC, <<90>>, <<65, 13, 66>>, <<65, 32, 66, 32>>}

RoundLists ==
    SeqsUpTo(RoundRecords, MaxWriteRecords) \cup {<<LongestRecord>>, <<TooLongRecord>>}

RoundInit ==
    /\ Idle
    /\ \E codes \in RoundLists, old \in OldOutputs :
          call = [fn |-> "WriteTextFile", codes |-> codes, file |-> old, out |-> <<>>,
                  back |-> <<>>]

\* codes, err := loadPromoCodes(path) on the file WriteTextFile has written
CallLoadPromoCodes ==
    /\ call.fn = "WriteTextFile" /\ "back" \in DOMAIN call
    /\ call.out = <<NoErr>> /\ call.back = <<>>
    /\ \/ call' = [call EXCEPT !.back = <<loadPromoCodes(call.file)>>]
       \/ call' = [call EXCEPT !.back = <<[codes |-> <<>>, err |-> TRUE,     \* os.Open failed
                                          open |-> FALSE]>>]
    /\ UNCHANGED runVars

RoundSpec == RoundInit /\ [][CallWriteTextFile \/ CallLoadPromoCodes]_vars

(***************************************************************************)
(* Fairness: the Go scheduler eventually runs every runnable goroutine.    *)
(* LiveSpec explores a fixed family of directories giving 0, 1, 2 and 3    *)
(* non-empty buckets.                                                      *)
(***************************************************************************)
LiveEntries ==
    { File(RecB \o <<NL>> \o RecA \o <<NL>>),
      File(RecShort \o <<13, NL, NL>> \o RecLong \o <<NL>>),
      File(RecPipe \o <<NL>> \o RecC \o <<13, NL>>) }

LiveDirectories == {d \in SeqsUpTo(LiveEntries, 2) : Len(d) > 0}

LiveInit ==
    /\ dirEntries \in LiveDirectories
    /\ outFile = NoFile /\ secondRun = FALSE /\ prevCodes = <<>> /\ prevOut = NoFile
    /\ call = NoCall
    /\ progress = NoProgress
    /\ FreshRun

Fairness ==
    /\ WF_vars(Orchestrator)
    /\ \A w \in 1..MaxPool : WF_vars(Worker(w))
    /\ WF_vars(Collector)

LiveSpec == LiveInit /\ [][Next]_vars /\ Fairness

(***************************************************************************)
(* The same program called with or without a progress callback (the tests  *)
(* pass nil, cmd/precompute passes a callback).                            *)
(***************************************************************************)
LibDirectories == SeqsUpTo(LiveEntries, MaxEntries)

LibInit ==
    /\ dirEntries \in LibDirectories
    /\ outFile = NoFile /\ secondRun = FALSE /\ prevCodes = <<>> /\ prevOut = NoFile
    /\ call = NoCall
    /\ progress \in {NoProgress, NilCallback}
    /\ FreshRun

LibSpec == LibInit /\ [][Next]_vars

(***************************************************************************)
(* Properties.                                                             *)
(***************************************************************************)
\* the records of entry i: the lines its scanner delivers
RecordsOfEntry(i) == Range(ScanLines(Bytes(dirEntries[i]), scannerMaxBuffer).toks)

InputEntries == {i \in 1..Len(dirEntries) : ~dirEntries[i].isDir}

AllRecords == UNION {RecordsOfEntry(i) : i \in InputEntries}

\* the input files (distinct source indices) in which r occurs as a line
SourcesOf(r) == {i \in InputEntries : r \in RecordsOfEntry(i)}

\* FindValidCodesHashPartition has just returned a list and no error
Success == pc \in {"main_ret", "write"} /\ ret.err = NoErr

\* C1: every record of the list returned by a successful run is 8 to 10 bytes
\* long and occurs as a line of at least two distinct input files; a directory
\* with a single input file yields the empty list.
C1_Soundness ==
    Success =>
        /\ \A k \in 1..Len(ret.codes) :
              /\ Len(ret.codes[k]) >= 8 /\ Len(ret.codes[k]) <= 10
              /\ Cardinality(SourcesOf(ret.codes[k])) >= 2
        /\ (Cardinality(InputEntries) = 1 => ret.codes = <<>>)

\* a run returned BBBBBBBBBB while AAAAAAAA, twice in one file only, was kept out
C1_Witness ==
    /\ Success /\ ret.codes = <<RecC>>
    /\ Cardinality(SourcesOf(RecA)) = 1

\* C2 as claimed: every record of the inputs that is missing from the result is
\* shorter than 8 bytes, longer than 10 bytes, or occurs in at most one input.
C2_Completeness_Claimed ==
    Success =>
        \A r \in AllRecords :
            r \notin Range(ret.codes) =>
                \/ Len(r) < 8 \/ Len(r) > 10
                \/ Cardinality(SourcesOf(r)) <= 1

\* C2 amended: every record of the inputs that is missing from the result is
\* shorter than 8 bytes, longer than 10 bytes, contains the delimiter '|', or
\* occurs in at most one input.
C2_Completeness ==
    Success =>
        \A r \in AllRecords :
            r \notin Range(ret.codes) =>
                \/ Len(r) < 8 \/ Len(r) > 10
                \/ PIPE \in Range(r)
                \/ Cardinality(SourcesOf(r)) <= 1

\* two files hold both AABAAAAAAB and AAAAAAAA and the run returned both
C2_Witness ==
    /\ Success /\ Len(ret.codes) = 2
    /\ Cardinality(SourcesOf(RecA)) = 2 /\ Cardinality(SourcesOf(RecB)) = 2

\* C3: the list returned by a successful run is strictly ascending in byte
\* order (so it holds no record twice).
C3_StrictlySorted ==
    Success =>
        \A k \in 1..(Len(ret.codes) - 1) : StrLess(ret.codes[k], ret.codes[k + 1])

\* two result batches reached the collector from a pool of two workers
C3_Witness ==
    /\ Success /\ Len(ret.codes) = 2 /\ resultCount >= 2 /\ workerPoolSize = 2

\* C4: a second run over the same directory, whatever its workers argument
\* and the CPU count, returns the list the first run returned.
C4_WorkerIndependence ==
    (secondRun /\ Success) => ret.codes = prevCodes

\* the second run defaulted a negative workers argument and returned two records
C4_Witness ==
    /\ secondRun /\ Success /\ workers < 0 /\ Len(ret.codes) = 2 /\ resultCount >= 2

\* C5: a second run that ends successfully leaves the output file with the
\* bytes the first run wrote.
C5_Idempotent ==
    (secondRun /\ pc = "exit" /\ exitCode = 0) => outFile = prevOut

\* the second run ended successfully with a non-empty output from two batches
C5_Witness ==
    /\ secondRun /\ pc = "exit" /\ exitCode = 0
    /\ Len(outFile) > 1 /\ resultCount >= 2 /\ workerPoolSize = 2

\* C6: under fair scheduling processBuckets, once entered, returns; when it
\* returns without an error every worker has left its loop on the closed,
\* drained queue and the collector has ended on the closed results channel;
\* the producer always finds room on the work queue.
C6_ReductionTerminates ==
    /\ (pc = "pb_start") ~>
          (/\ pc = "fv_defer"
           /\ ret.err = NoErr =>
                 /\ \A w \in DOMAIN wstate : wstate[w].pc = "done"
                 /\ pathsClosed /\ bucketPaths = <<>>
                 /\ resultsClosed /\ results = <<>> /\ collector = "done")
    /\ []((pc = "dispatch" /\ NonEmptyFrom(bucketNum) # {}) =>
              Len(bucketPaths) < numBuckets)

\* a worker is blocked sending on the full results channel while the collector
\* has not been started yet
C6_Witness ==
    /\ collector = "none"
    /\ \E w \in DOMAIN wstate : wstate[w].pc = "send" /\ Len(results) = workerPoolSize

\* C7 as claimed: a worker leaves its loop without an error only on the closed
\* and empty queue (a failure of another worker cancels nothing); the error
\* recorded first is never replaced; and whenever processBuckets returns after
\* a reducer has failed, every worker has returned and the value returned is
\* that first error with no list.
C7_ErrorPropagation_Claimed ==
    [][ /\ \A w \in DOMAIN wstate :
              (w \in DOMAIN wstate' /\ wstate[w].pc # "done" /\ wstate'[w].pc = "done")
                  => (pathsClosed /\ bucketPaths = <<>>)
        /\ egErr # NoErr => egErr' = egErr
        /\ (pc \in {"dispatch", "wait"} /\ pc' = "fv_defer" /\ egErr # NoErr) =>
              /\ \A w \in DOMAIN wstate : wstate[w].pc \in {"done", "failed"}
              /\ ret' = Returned(<<>>, egErr)
      ]_vars

\* C8: after any return of FindValidCodesHashPartition no scratch directory
\* and no spill file is left.
C8_ScratchRemoved ==
    pc \in {"main_ret", "write", "exit"} =>
        (scratch # "exists" /\ created = 0 /\ disk = EmptyMap)

\* the run returned a stat failure while a worker was still reducing, and the
\* scratch directory is gone
C8_Witness ==
    /\ pc = "main_ret" /\ scratch = "removed"
    /\ ret.err # NoErr /\ ret.err[1] = "stat"
    /\ \E w \in DOMAIN wstate : wstate[w].pc = "reduce"

\* C9: when the directory cannot be read or holds no non-directory entry the
\* call returns an error, and no scratch directory, spill file or worker
\* ever existed.
C9_ConfigurationError ==
    (/\ pc \notin {"main", "readdir", "exit_nodir"}
     /\ InputEntries = {} \/ ret.err = <<"readdir">>)
        => /\ ret.err \in {<<"readdir">>, <<"nofiles">>}
           /\ pc \in {"main_ret", "exit"}
           /\ scratch = "none" /\ created = 0 /\ disk = EmptyMap /\ bufs = EmptyMap
           /\ wstate = <<>> /\ collector = "none"

\* a directory holding only sub-directories was rejected
C9_Witness ==
    /\ pc = "main_ret" /\ Len(dirEntries) >= 1 /\ InputEntries = {}
    /\ ret.err = <<"nofiles">> /\ scratch = "none"

\* C10: main reaches the writer only from a successful return; the output
\* path changes only in the writer; after a pipeline error the process exits
\* with status 1 and the output path is left as it was.
C10_NoPartialArtifact ==
    [][ /\ (pc' = "write" /\ pc # "write") => (pc = "main_ret" /\ ret.err = NoErr)
        /\ outFile' # outFile => (pc = "write" /\ ret.err = NoErr)
        /\ (pc = "main_ret" /\ pc' # pc /\ ret.err # NoErr) =>
              (pc' = "exit" /\ exitCode' = 1 /\ outFile' = outFile)
      ]_vars

\* the second run failed in the pipeline and the first run's output is intact
C10_Witness ==
    /\ secondRun /\ pc = "exit" /\ exitCode = 1 /\ ret.err # NoErr
    /\ outFile = prevOut /\ Len(outFile) > 1

\* the lines of the spill file of bucket b
SpillLines(b) == ScanLines(Get(disk, b), bucketScannerMax).toks

\* number of positions of seq holding x
Count(seq, x) == Cardinality({k \in 1..Len(seq) : seq[k] = x})

\* the tokens the scanner delivers from the input with source index i
TokensOfSource(i) == ScanLines(Bytes(dirEntries[files[i + 1]]), scannerMaxBuffer).toks

SourceIndices == 0 .. (Len(files) - 1)

\* records of the inputs that pass the length filter
Survivors ==
    {r \in UNION {Range(TokensOfSource(i)) : i \in SourceIndices} : Len(r) >= 8 /\ Len(r) <= 10}

\* the buckets whose spill file holds at least one entry <r>|<i> for record r
BucketsHolding(r) ==
    {b \in DOMAIN disk :
        \E i \in SourceIndices : Count(SpillLines(b), r \o <<PIPE>> \o Itoa(i)) > 0}

PartitionDone == pc = "pb_start"

\* C11: when partitionFiles has returned without error, each record that passed
\* the length filter has entries in exactly one spill file, the one numbered
\* hashCode(r, numBuckets), and that file holds one entry per occurrence of r in
\* each input file.
C11_PartitionExclusive ==
    PartitionDone =>
        \A r \in Survivors :
            /\ BucketsHolding(r) = {hashCode(r, numBuckets)}
            /\ \A i \in SourceIndices :
                  Count(SpillLines(hashCode(r, numBuckets)), r \o <<PIPE>> \o Itoa(i))
                      = Count(TokensOfSource(i), r)

\* two files were partitioned: AAAAAAAA (three occurrences) and AABAAAAAAB share
\* bucket 5, BBBBBBBBBB went to bucket 533
C11_Witness ==
    /\ PartitionDone /\ Len(files) = 2
    /\ Survivors = {RecA, RecB, RecC}
    /\ BucketsHolding(RecA) = {5} /\ BucketsHolding(RecB) = {5}
    /\ BucketsHolding(RecC) = {533}
    /\ Len(SpillLines(5)) = 4

\* some spill file holds the entry of record r read from source index i
HasSpillEntry(r, i) ==
    \E b \in DOMAIN disk : Count(SpillLines(b), r \o <<PIPE>> \o Itoa(i)) > 0

\* C13: when partitionFiles has returned without error, a line read from input
\* i has a spill entry exactly when it is 8, 9 or 10 bytes long, and every line
\* of every spill file is the entry of such a line.
C13_LengthFilter ==
    PartitionDone =>
        /\ \A i \in SourceIndices : \A r \in Range(TokensOfSource(i)) :
              HasSpillEntry(r, i) <=> Len(r) \in {8, 9, 10}
        /\ \A b \in DOMAIN disk : \A line \in Range(SpillLines(b)) :
              \E i \in SourceIndices : \E r \in Range(TokensOfSource(i)) :
                  Len(r) \in {8, 9, 10} /\ line = r \o <<PIPE>> \o Itoa(i)

\* input 0 held a 7-byte line, an empty line and an 11-byte line and left no
\* entry; input 1 held a 9-byte and a 10-byte line and left two
C13_Witness ==
    /\ PartitionDone /\ Len(files) = 2
    /\ TokensOfSource(0) = <<RecShort, <<>>, RecLong>>
    /\ TokensOfSource(1) = <<RecPipe, RecC>>
    /\ HasSpillEntry(RecPipe, 1) /\ HasSpillEntry(RecC, 1)
    /\ ~HasSpillEntry(RecShort, 0) /\ ~HasSpillEntry(RecLong, 0) /\ ~HasSpillEntry(<<>>, 0)

\* the pieces of a file between its '\n' bytes (no piece after a final '\n')
RECURSIVE RawLines(_)
RawLines(data) ==
    IF Len(data) = 0 THEN <<>>
    ELSE LET nls == {k \in 1 .. Len(data) : data[k] = NL} IN
         IF nls = {} THEN <<data>>
         ELSE <<SubSeq(data, 1, Least(nls) - 1)>>
                  \o RawLines(SubSeq(data, Least(nls) + 1, Len(data)))

RawLinesOfSource(i) == Range(RawLines(Bytes(dirEntries[files[i + 1]])))

\* a piece without the '\r' that ends it, if one does
WithoutCR(l) ==
    IF Len(l) > 0 /\ l[Len(l)] = 13 THEN SubSeq(l, 1, Len(l) - 1) ELSE l

\* C18 as claimed: only the '\n' is removed, so a line has a spill entry, with
\* its trailing '\r' as the last byte of the record, exactly when the line
\* with that '\r' is 8 to 10 bytes long.
C18_CarriageReturnKept_Claimed ==
    PartitionDone =>
        \A i \in SourceIndices : \A l \in RawLinesOfSource(i) :
            HasSpillEntry(l, i) <=> Len(l) \in {8, 9, 10}

\* C18 amended: the '\n' and one '\r' immediately before it are removed, so a
\* line has a spill entry, for the record without that '\r', exactly when the
\* line without it is 8 to 10 bytes long, and no spill entry ends a record
\* with the '\r' of its line.
C18_CarriageReturnDropped ==
    PartitionDone =>
        \A i \in SourceIndices : \A l \in RawLinesOfSource(i) :
            /\ HasSpillEntry(WithoutCR(l), i) <=> Len(WithoutCR(l)) \in {8, 9, 10}
            /\ l # WithoutCR(l) => ~HasSpillEntry(l, i)

\* "AAAAAAA\r\n" left no entry (7 bytes), "BBBBBBBBBB\r\n" left the entry of
\* the 10-byte record
C18_Witness ==
    /\ PartitionDone /\ Len(files) = 2
    /\ RecShort \o <<13>> \in RawLinesOfSource(0)
    /\ RecC \o <<13>> \in RawLinesOfSource(1)
    /\ ~HasSpillEntry(RecShort, 0) /\ ~HasSpillEntry(RecShort \o <<13>>, 0)
    /\ HasSpillEntry(RecC, 1) /\ ~HasSpillEntry(RecC \o <<13>>, 1)

\* the input files, by position in the directory, that hold the line r (without
\* the '\r' of a CRLF)
FilesHolding(r) ==
    {i \in 1 .. Len(dirEntries) :
        /\ ~dirEntries[i].isDir
        /\ \E l \in Range(RawLines(Bytes(dirEntries[i]))) : WithoutCR(l) = r}

\* C19: every line of 8 to 10 bytes has a spill entry holding it byte for
\* byte, spaces included, and a successful run returns exactly the lines of 8
\* to 10 bytes that two input files hold byte for byte: a record with spaces
\* comes out unchanged and is never merged with a trimmed or padded variant.
C19_WhitespacePreserved ==
    /\ PartitionDone =>
          \A i \in SourceIndices : \A l \in RawLinesOfSource(i) :
              Len(WithoutCR(l)) \in {8, 9, 10} => HasSpillEntry(WithoutCR(l), i)
    /\ Success =>
          \A r \in Range(ret.codes) \cup {RecGoodCode, RecSpaced, RecGoodCodeSp, RecGoodcode} :
              r \in Range(ret.codes) <=>
                  (Len(r) \in {8, 9, 10} /\ Cardinality(FilesHolding(r)) >= 2)

\* "GOOD CODE" and " SPACED  " are in both files and returned as they are;
\* "GOODCODE" is in one file and is not returned
C19_Witness ==
    /\ Success /\ Len(dirEntries) = 2
    /\ Range(ret.codes) = {RecGoodCode, RecSpaced}
    /\ Cardinality(FilesHolding(RecGoodcode)) = 1

\* processBucket has returned from a direct call
Reduced == call.fn = "processBucket" /\ call.out # <<>>

PipePositions(line) == {k \in 1 .. Len(line) : line[k] = PIPE}

\* the text after the only '|' of a line
IndexText(line) == SubSeq(line, Least(PipePositions(line)) + 1, Len(line))

\* the text before the only '|' of a line
RecordText(line) == SubSeq(line, 1, Least(PipePositions(line)) - 1)

IsDecimal(t) == Len(t) > 0 /\ \A k \in 1 .. Len(t) : t[k] \in 48 .. 57

RECURSIVE DecimalValue(_)
DecimalValue(t) ==
    IF Len(t) = 0 THEN 0
    ELSE 10 * DecimalValue(SubSeq(t, 1, Len(t) - 1)) + (t[Len(t)] - 48)

\* the index text without a leading '+'
Unsigned(t) == IF Len(t) > 0 /\ t[1] = 43 THEN Tail(t) ELSE t

\* <record>|<decimal non-negative source index>
WellFormed(line) ==
    Cardinality(PipePositions(line)) = 1 /\ IsDecimal(Unsigned(IndexText(line)))

\* the source indices paired with record r on the well-formed lines
IndicesOf(lines, r) ==
    {DecimalValue(Unsigned(IndexText(lines[k]))) :
        k \in {j \in 1 .. Len(lines) : WellFormed(lines[j]) /\ RecordText(lines[j]) = r}}

RecordsOn(lines) ==
    {RecordText(lines[k]) : k \in {j \in 1 .. Len(lines) : WellFormed(lines[j])}}

\* C14 as claimed: processBucket returns, each exactly once, the records that
\* appear on well-formed lines with at least two distinct source indices.
C14_ReducerResult_Claimed ==
    Reduced =>
        LET out == call.out[1] IN
        /\ ~out.err
        /\ Range(out.codes) =
              {r \in RecordsOn(call.lines) : Cardinality(IndicesOf(call.lines, r)) >= 2}
        /\ Cardinality(Range(out.codes)) = Len(out.codes)

\* no '|', more than one '|', or an index that is not an optionally signed
\* decimal number
MalformedSyntax(line) ==
    \/ Cardinality(PipePositions(line)) # 1
    \/ LET t == IndexText(line)
           u == IF Len(t) > 0 /\ t[1] \in {43, 45} THEN Tail(t) ELSE t
       IN  ~IsDecimal(u)

KeepSyntax(line) == ~MalformedSyntax(line)

\* C15: processBucket returns without error whatever malformed lines the file
\* holds, and returns the list it returns for the file without its malformed
\* lines (no '|', more than one '|', non-numeric index).
C15_MalformedSkipped ==
    Reduced =>
        /\ ~call.out[1].err
        /\ call.out[1].codes =
              processBucket(FileOfLines(SelectSeq(call.lines, KeepSyntax), TRUE)).codes

\* "Z|a", "Y|0", "Y|1": the malformed line is skipped and Y is returned
C15_Witness ==
    /\ Reduced
    /\ call.lines = <<<<90, 124, 97>>, <<89, 124, 48>>, <<89, 124, 49>>>>
    /\ call.out[1] = [codes |-> <<<<89>>>>, err |-> FALSE]

NegativeIndex(line) ==
    /\ Cardinality(PipePositions(line)) = 1
    /\ LET t == IndexText(line) IN Len(t) > 1 /\ t[1] = 45 /\ IsDecimal(Tail(t))

KeepNonNegative(line) == ~NegativeIndex(line)

\* C16 as claimed: a line with a negative index contributes nothing; the
\* result is the one for the file without such lines.
C16_NegativeIndexSkipped_Claimed ==
    Reduced =>
        call.out[1].codes =
            processBucket(FileOfLines(SelectSeq(call.lines, KeepNonNegative), TRUE)).codes

\* where record i starts in a file of records each followed by one byte
RECURSIVE LineStart(_, _)
LineStart(codes, i) ==
    IF i = 1 THEN 1 ELSE LineStart(codes, i - 1) + Len(codes[i - 1]) + 1

\* WriteTextFile has returned nil from a direct call
Written == call.fn = "WriteTextFile" /\ call.out = <<NoErr>>

\* C17: after a successful WriteTextFile the file holds the given records in
\* the given order, each followed by exactly one newline and nothing else, so
\* it is empty iff the list is empty and no byte of the old file remains.
C17_WriterFormat ==
    Written =>
        LET codes == call.codes
            file  == call.file
        IN  /\ Len(file) = LineStart(codes, Len(codes) + 1) - 1
            /\ file # NoFile
            /\ \A i \in 1 .. Len(codes) :
                  LET at == LineStart(codes, i) IN
                  /\ SubSeq(file, at, at + Len(codes[i]) - 1) = codes[i]
                  /\ file[at + Len(codes[i])] = NL
            /\ (Len(file) = 0) <=> (Len(codes) = 0)

\* an unsorted list with a repeated record, written over a longer old file
C17_Witness ==
    /\ Written
    /\ call.codes = <<RecC, RecA, RecC>>
    /\ call.file = RecC \o <<NL>> \o RecA \o <<NL>> \o RecC \o <<NL>>

\* FNV-1a (32-bit) on four 8-bit limbs, least significant first:
\* offset basis 0x811C9DC5, prime 0x01000193 = 2^24 + 403.
RefBit(x, i) == (x \div (2 ^ i)) % 2

RefXor(a, b) ==
    LET D == {i \in 0 .. 7 : RefBit(a, i) # RefBit(b, i)}
        w(i) == IF i \in D THEN 2 ^ i ELSE 0
    IN  w(0) + w(1) + w(2) + w(3) + w(4) + w(5) + w(6) + w(7)

RefStep(l, byte) ==
    LET x0 == RefXor(l[1], byte)
        p0 == x0 * 403
        p1 == l[2] * 403 + (p0 \div 256)
        p2 == l[3] * 403 + (p1 \div 256)
        p3 == l[4] * 403 + (p2 \div 256) + x0
    IN  <<p0 % 256, p1 % 256, p2 % 256, p3 % 256>>

RefFnv1a[code \in Seq(0 .. 255)] ==
    IF Len(code) = 0 THEN <<197, 157, 28, 129>>
    ELSE RefStep(RefFnv1a[SubSeq(code, 1, Len(code) - 1)], code[Len(code)])

\* the 32-bit value held in limbs l, reduced modulo nb
RefMod(l, nb) == ((((((l[4] % nb) * 256 + l[3]) % nb) * 256 + l[2]) % nb) * 256 + l[1]) % nb

\* C12: every call hashCode(code, nb) returns the 32-bit FNV-1a hash of the bytes
\* of code reduced modulo nb, a value in 0..nb-1 (0 when nb = 1); the empty
\* string hashes to the offset basis (2166136261 mod 1000 = 261); a repeated
\* call returns the value of the first.
C12_HasherContract ==
    call.fn = "hashCode" =>
        \A k \in 1 .. Len(call.out) :
            /\ call.out[k] = RefMod(RefFnv1a[call.code], call.nb)
            /\ call.out[k] >= 0 /\ call.out[k] < call.nb
            /\ call.nb = 1 => call.out[k] = 0
            /\ (call.code = <<>> /\ call.nb = numBuckets) => call.out[k] = 261
            /\ call.out[k] = call.out[1]

\* "a" hashes to 0xE40C292C = 3826002220, bucket 220 of 1000, on both calls
C12_Witness ==
    /\ call.fn = "hashCode" /\ call.code = <<97>> /\ call.nb = numBuckets
    /\ call.out = <<220, 220>>

\* C20: every invocation of the progress callback is made by the main goroutine
\* (the orchestrator) or by the collector, never by a worker, and the main
\* goroutine makes none while the collector is running.
C20_CallbackSerialized ==
    [][ progress'.n > progress.n =>
            /\ progress'.by \in {"main", "collector"}
            /\ progress'.by = "main" => collector # "running"
            /\ progress'.by = "collector" => collector = "running"
      ]_vars

\* the collector reported the last of two batches and the orchestrator then
\* reported the end of the reduction
C20_Witness ==
    /\ pc = "fv_defer" /\ ret.err = NoErr /\ progress.by = "main"
    /\ collector = "done" /\ resultCount = 2 /\ bucketsProcessed = 2

\* errors with which partitionFiles returns
PartitionErrors == {"create", "open", "read", "write", "flush"}

PartitionFailed == ret.err # NoErr /\ ret.err[1] \in PartitionErrors

\* a worker goroutine exists
WorkersStarted == wstate # <<>>

\* C30: while any worker exists, partitionFiles has returned without error:
\* every input was read to its end without a read error, no spill writer holds
\* pending bytes or an error, and no spill file or input is open.  After a
\* failed partitionFiles no worker exists.
C30_PhaseBarrier ==
    /\ WorkersStarted =>
          /\ pc \notin {"main", "readdir", "mkdirtemp", "create", "files", "scan", "pf_defer",
                        "pb_start"}
          /\ fileIdx = Len(files) + 1 /\ lineNo = Len(toks) /\ ~scanErr
          /\ bufs = EmptyMap /\ writerErr = {}
          /\ bucketHandles = 0 /\ ~inputOpen
          /\ ~PartitionFailed
    /\ PartitionFailed => ~WorkersStarted

\* a worker is reducing a spill file of a run over two inputs
C30_Witness ==
    /\ Len(files) = 2
    /\ \E w \in DOMAIN wstate : wstate[w].pc = "reduce" /\ Len(Get(disk, wstate[w].path)) > 0

\* worker w leaves its loop in this step
WorkerExits(w) ==
    w \in DOMAIN wstate /\ w \in DOMAIN wstate' /\ wstate[w].pc = "recv" /\ wstate'[w].pc = "done"

\* C27: a worker leaves its loop only on the closed and empty queue, and the
\* step records no error and puts nothing on the results channel; a successful
\* run with more workers than dispatched paths has collected one batch per
\* path, and it returns the list an earlier run over the directory returned.
C27_IdleWorkersHarmless ==
    [][ /\ \A w \in DOMAIN wstate :
              WorkerExits(w) =>
                  /\ pathsClosed /\ bucketPaths = <<>>
                  /\ results' = results /\ egErr' = egErr
                  /\ allValidCodes' = allValidCodes /\ resultCount' = resultCount
        /\ (pc = "wait_done" /\ pc' = "fv_defer" /\ workerPoolSize > bucketsProcessed) =>
              /\ resultCount = bucketsProcessed
              /\ secondRun => ret'.codes = prevCodes
      ]_vars

\* two workers, one dispatched path: a worker that never received a path has
\* returned, and the run returned the two records of that bucket
C27_Witness ==
    /\ Success /\ workerPoolSize = 2 /\ bucketsProcessed = 1 /\ resultCount = 1
    /\ \E w \in DOMAIN wstate : wstate[w].pc = "done" /\ wstate[w].path = 0 - 1
    /\ Len(ret.codes) = 2

\* processBucket fails in worker w in this step
WorkerFails(w) ==
    w \in DOMAIN wstate /\ w \in DOMAIN wstate' /\ wstate[w].pc = "reduce" /\ wstate'[w].pc # "reduce"
        /\ wstate'[w].pc # "send"

\* C28: an error reaches the errgroup only from a worker whose processBucket
\* fails; that worker returns the error of its path, the step puts nothing on
\* the results channel, takes nothing off it and dequeues nothing, and the
\* worker never dequeues or sends again.
C28_WorkerFailure ==
    [][ /\ egErr' # egErr => \E w \in DOMAIN wstate : WorkerFails(w)
        /\ \A w \in DOMAIN wstate :
              /\ WorkerFails(w) =>
                    /\ wstate'[w].pc = "failed"
                    /\ egErr' # NoErr
                    /\ egErr = NoErr => egErr' = <<"bucket", wstate[w].path>>
                    /\ results' = results /\ bucketPaths' = bucketPaths
              /\ wstate[w].pc = "failed" =>
                    w \in DOMAIN wstate' /\ wstate'[w] = wstate[w]
      ]_vars

\* the only worker failed on its first path; the run returned that error and
\* the second path is still on the queue
C28_Witness ==
    /\ pc = "main_ret" /\ workerPoolSize = 1 /\ wstate[1].pc = "failed"
    /\ ret = Returned(<<>>, <<"bucket", wstate[1].path>>)
    /\ Len(bucketPaths) = 1 /\ pathsClosed /\ results = <<>> /\ resultCount = 0

\* worker w dequeues a path in this step
WorkerDequeues(w) ==
    w \in DOMAIN wstate /\ w \in DOMAIN wstate' /\ wstate[w].pc = "recv" /\ wstate'[w].pc = "reduce"

\* the paths some worker has dequeued, and the workers holding each
Dequeued == {wstate[w].path : w \in DOMAIN wstate} \ {0 - 1}

\* no path is on the queue twice, on the queue and with a worker, or with two
\* workers; a step that shortens the queue hands its head to one worker
OwnershipExclusive ==
    /\ \A i, j \in 1 .. Len(bucketPaths) : i # j => bucketPaths[i] # bucketPaths[j]
    /\ \A i \in 1 .. Len(bucketPaths) : bucketPaths[i] \notin Dequeued
    /\ \A w1, w2 \in DOMAIN wstate :
          (w1 # w2 /\ wstate[w1].path # 0 - 1) => wstate[w1].path # wstate[w2].path
    /\ \A b \in Range(bucketPaths) \cup Dequeued : b < bucketNum
    /\ Len(bucketPaths') > Len(bucketPaths) =>
          /\ Len(bucketPaths') = Len(bucketPaths) + 1
          /\ SubSeq(bucketPaths', 1, Len(bucketPaths)) = bucketPaths
          /\ bucketPaths'[Len(bucketPaths')] >= bucketNum
          /\ bucketsProcessed' = bucketsProcessed + 1
    /\ Len(bucketPaths') < Len(bucketPaths) =>
          \E w \in DOMAIN wstate :
              /\ WorkerDequeues(w)
              /\ wstate'[w].path = Head(bucketPaths) /\ bucketPaths' = Tail(bucketPaths)
              /\ \A v \in DOMAIN wstate \ {w} : wstate'[v] = wstate[v]

\* processBuckets returns in this step (from the dispatch loop, from eg.Wait or
\* after the sort)
ProcessBucketsReturns == pc \in {"dispatch", "wait", "wait_done"} /\ pc' = "fv_defer"

\* C26 as claimed: ownership is exclusive, once every worker has returned no
\* path is left on the queue, and when processBuckets returns in a run without
\* worker errors the collector has received one batch per dispatched path.
C26_ExclusiveOwnership_Claimed ==
    [][ /\ OwnershipExclusive
        /\ (WorkersStarted /\ AllWorkersReturned) => bucketPaths = <<>>
        /\ (ProcessBucketsReturns /\ egErr = NoErr) => resultCount = bucketsProcessed
      ]_vars

\* C26 amended: ownership is exclusive (a path is dequeued by at most one
\* worker), the collector never receives more batches than paths were
\* dispatched, and whenever processBuckets returns without an error, whatever
\* the return path, every worker has returned, no path is left on the queue
\* and one batch was collected per dispatched path.
C26_ExclusiveOwnership ==
    [][ /\ OwnershipExclusive
        /\ resultCount <= bucketsProcessed
        /\ Cardinality(Dequeued) <= bucketsProcessed
        /\ (ProcessBucketsReturns /\ ret'.err = NoErr) =>
              /\ AllWorkersReturned /\ pathsClosed /\ bucketPaths = <<>>
              /\ resultCount = bucketsProcessed
      ]_vars

\* two workers reduced one spill file each and the collector received two
\* batches for the two dispatched paths
C26_Witness ==
    /\ Success /\ workerPoolSize = 2 /\ bucketsProcessed = 2 /\ resultCount = 2
    /\ wstate[1].path # wstate[2].path /\ wstate[1].path >= 0 /\ wstate[2].path >= 0

\* positions of the main goroutine inside partitionFiles
PartitionPhase == {"create", "files", "scan", "pf_defer"}

\* workers inside processBucket, each with its spill file open
Reducing == {w \in DOMAIN wstate : wstate[w].pc = "reduce"}

\* files the process holds open
OpenFiles == bucketHandles + (IF inputOpen THEN 1 ELSE 0) + Cardinality(Reducing)

\* C24: inside partitionFiles at most numBuckets + 1 files are open and no
\* worker holds one; an input is open only while it is being scanned, so it is
\* closed before the next is opened and on every return; outside
\* partitionFiles no spill-file handle of the partitioner is left, so at most
\* one file per worker is open.
C24_OpenFileCeiling ==
    /\ pc \in PartitionPhase => (OpenFiles <= numBuckets + 1 /\ Reducing = {})
    /\ pc # "scan" => ~inputOpen
    /\ pc \notin PartitionPhase =>
          /\ bucketHandles = 0
          /\ OpenFiles = Cardinality(Reducing)
          /\ OpenFiles <= workerPoolSize

\* the second input is being scanned with all spill files open
C24_Witness ==
    /\ pc = "scan" /\ fileIdx = 2 /\ lineNo = 1
    /\ OpenFiles = numBuckets + 1

\* partitionFiles has just returned to FindValidCodesHashPartition
PartitionReturned ==
    /\ pc \in {"pb_start", "fv_defer"} /\ ~WorkersStarted /\ scratch = "exists"
    /\ pc = "fv_defer" => PartitionFailed

\* the spill entries for bucket b among the first n of the lines ts of source src
RECURSIVE EntriesIn(_, _, _, _, _)
EntriesIn(ts, lo, hi, src, b) ==
    IF lo > hi THEN <<>>
    ELSE IF lo = hi
    THEN (IF LengthOK(ts[lo]) /\ BucketNum(ts[lo]) = b THEN SpillEntry(ts[lo], src) ELSE <<>>)
    ELSE EntriesIn(ts, lo, (lo + hi) \div 2, src, b)
             \o EntriesIn(ts, (lo + hi) \div 2 + 1, hi, src, b)

EntriesOf(ts, n, src, b) == EntriesIn(ts, 1, n, src, b)

\* the entries for bucket b of the inputs read to their end
RECURSIVE EntriesOfInputs(_, _)
EntriesOfInputs(k, b) ==
    IF k = 0 THEN <<>>
    ELSE EntriesOfInputs(k - 1, b)
             \o EntriesOf(TokensOfSource(k - 1), Len(TokensOfSource(k - 1)), k - 1, b)

\* everything WriteString accepted for bucket b before partitionFiles returned
Accepted(b) ==
    IF fileIdx = 0 THEN <<>>
    ELSE IF fileIdx > Len(files) THEN EntriesOfInputs(Len(files), b)
    ELSE IF ret.err[1] = "open" THEN EntriesOfInputs(fileIdx - 1, b)
    ELSE EntriesOfInputs(fileIdx - 1, b) \o EntriesOf(toks, lineNo, fileIdx - 1, b)

SpillBuckets == DOMAIN disk \cup {BucketNum(RecA), BucketNum(RecC)}

\* C25: when partitionFiles has returned, with or without an error, no
\* spill-file handle is open, no writer holds pending bytes, and the spill file
\* of every bucket whose writer met no error holds everything written to it.
C25_WritersFlushedAndClosed ==
    PartitionReturned =>
        /\ bucketHandles = 0 /\ ~inputOpen
        /\ bufs = EmptyMap
        /\ \A b \in SpillBuckets \ writerErr : Get(disk, b) = Accepted(b)

\* WriteString failed on the full buffer of bucket 5; the deferred loop flushed
\* the entry pending for bucket 533 and closed every spill file
C25_Witness ==
    /\ PartitionReturned /\ ret.err = <<"write", BucketNum(RecA)>>
    /\ writerErr = {BucketNum(RecA)}
    /\ Get(disk, BucketNum(RecC)) = SpillEntry(RecC, 0)
    /\ bucketHandles = 0

\* C21: with a callback, a run that returns a list has invoked it at least
\* once; without one, no invocation is ever made; and a second run over the
\* same directory returns the list of the first, whichever of the two runs
\* had a callback.
C21_CallbackOptional ==
    /\ (Success /\ progress.set) => progress.n >= 1
    /\ ~progress.set => progress = NilCallback
    /\ (secondRun /\ Success) => ret.codes = prevCodes

\* a run without callback returned one record over two dispatched buckets
\* and made no invocation
C21_Witness ==
    /\ Success /\ ~progress.set /\ progress.n = 0
    /\ bucketsProcessed = 2 /\ resultCount = 2 /\ Len(ret.codes) = 1

\* the spill file of bucket b exists and has non-zero size
SpillNonEmpty(b) == scratch = "exists" /\ b < created /\ Len(Get(disk, b)) > 0

\* C22 as claimed: a path is put on the work queue only for a spill file that
\* exists with non-zero size; when the dispatch loop ends, the number of paths
\* put on the queue is the number of non-empty buckets; and a worker that
\* receives a path receives that of an existing, non-empty spill file.
C22_EmptyNotDispatched_Claimed ==
    [][ /\ Len(bucketPaths') > Len(bucketPaths) =>
              SpillNonEmpty(bucketPaths'[Len(bucketPaths')])
        /\ (pathsClosed' /\ ~pathsClosed) =>
              bucketsProcessed = Cardinality({b \in 0 .. numBuckets - 1 : SpillNonEmpty(b)})
        /\ \A w \in DOMAIN wstate :
              WorkerDequeues(w) => SpillNonEmpty(wstate'[w].path)
      ]_vars

\* C29 as claimed: every time the count of lines read from the file reaches a
\* multiple of progressReportInterval a progress message is emitted, whether
\* or not that line passes the length filter, and no message is emitted for
\* any other line (the write of the line succeeding).
C29_ProgressCadence_Claimed ==
    [][ (call.fn = "scanLoop" /\ call'.fileCodesRead = call.fileCodesRead + 1 /\ ~call'.failed) =>
            progress'.n = progress.n +
                (IF call'.fileCodesRead % progressReportInterval = 0 THEN 1 ELSE 0)
      ]_vars

\* the scanner of partitionFiles stops on this file's bytes with ErrTooLong
OverLong(e) == ScanLines(Bytes(e), scannerMaxBuffer).err

\* the read error partitionFiles returns for the k-th input file
ReadError(k) == <<"read", k - 1>>

ReadFailed == ret.err # NoErr /\ ret.err[1] = "read"

\* C23: an input file on which the scanner stops with ErrTooLong is never read
\* to its end successfully: when the scan loop ends on it partitionFiles returns
\* the read error naming that file and no codes; that result is handed on
\* unchanged by FindValidCodesHashPartition; no worker is ever started, and
\* the scratch directory is removed before FindValidCodesHashPartition returns.
C23_OverLongLine ==
    /\ [](\A k \in 1 .. Len(files) : fileIdx > k => ~OverLong(dirEntries[files[k]]))
    /\ [](ReadFailed =>
             /\ ret.codes = <<>> /\ ~WorkersStarted
             /\ pc \in {"pf_defer", "fv_defer", "main_ret", "exit"}
             /\ pc \in {"main_ret", "exit"} => scratch = "removed")
    /\ [][ /\ (pc = "scan" /\ lineNo = Len(toks) /\ pc' # pc
                /\ OverLong(dirEntries[files[fileIdx]])) =>
                  ret' = Returned(<<>>, ReadError(fileIdx)) /\ pc' = "pf_defer"
           /\ (ReadFailed /\ pc \in {"pf_defer", "fv_defer", "main_ret"}) => ret' = ret
         ]_vars

\* the process has exited after the second of two inputs, the one with the
\* over-long line, stopped the scanner
C23_Witness ==
    /\ pc = "exit" /\ Len(files) = 2
    /\ ~OverLong(dirEntries[files[1]]) /\ OverLong(dirEntries[files[2]])
    /\ ret = Returned(<<>>, ReadError(2))
    /\ scratch = "removed" /\ ~WorkersStarted

\* close(results) is executed in this step
ResultsClosing == ~resultsClosed /\ resultsClosed'

\* C31: close(results) is executed only by the orchestrator at its close
\* statement, on a channel not yet closed and after every worker has returned;
\* nothing is sent on the closed channel and no worker panics; and the
\* orchestrator leaves the wait on the collector, sorts and returns only when
\* the collector has signalled completion.
C31_ResultsClosingProtocol ==
    /\ [](pc = "close_results" => ~resultsClosed)
    /\ [](resultsClosed => AllWorkersReturned)
    /\ [](\A w \in DOMAIN wstate : wstate[w].pc # "panic")
    /\ [][ /\ ResultsClosing =>
                 /\ pc = "close_results" /\ pc' = "wait_done"
                 /\ AllWorkersReturned /\ wstate' = wstate /\ collector' = collector
           /\ Len(results') > Len(results) => ~resultsClosed /\ ~resultsClosed'
           /\ (pc = "wait_done" /\ pc' # pc) =>
                 /\ collector = "done" /\ resultsClosed /\ results = <<>>
                 /\ ret' = Returned(SortStrings(allValidCodes), NoErr)
         ]_vars

\* a run with two workers has returned a non-empty sorted list
C31_Witness ==
    /\ pc = "fv_defer" /\ ret.err = NoErr /\ Len(ret.codes) > 0
    /\ workerPoolSize = 2 /\ resultsClosed /\ collector = "done"

\* processBuckets was entered and has returned
ProcessBucketsReturned ==
    WorkersStarted /\ pc \in {"fv_defer", "main_ret", "write", "exit"}

\* C36 as claimed: whenever processBuckets has returned, with a result or with
\* an error, the results channel is closed and the collector goroutine has
\* terminated.
C36_CollectorTerminates_Claimed ==
    ProcessBucketsReturned => resultsClosed /\ collector = "done"

\* os.RemoveAll(tempDir) runs in this step
ScratchRemoved == scratch = "exists" /\ scratch' = "removed"

\* C37 as claimed: when the scratch directory is deleted the work queue has
\* been closed and every worker has returned, on every exit path of the run.
C37_WorkersDoneBeforeRemoval_Claimed ==
    [][ (ScratchRemoved /\ WorkersStarted) => pathsClosed /\ AllWorkersReturned ]_vars

\* the collector goroutine appends a batch in this step
CollectorWrites ==
    collector = "running" /\ collector' = "running" /\ resultCount' = resultCount + 1

\* the orchestrator sorts the accumulator and returns it in this step
OrchestratorSorts == pc = "wait_done" /\ pc' = "fv_defer"

\* C38 as claimed: within a run the accumulated list is changed by the
\* collector only.
C38_AccumulatorRaceFree_Claimed ==
    [][ (allValidCodes' # allValidCodes /\ pc # "exit") => CollectorWrites ]_vars

\* C38: within a run the accumulated list is changed only by a step of the
\* collector or, once the collector has signalled completion, by the
\* orchestrator sorting it in place; the orchestrator touches it at no other
\* time, and the dispatched-bucket counter changes only while no collector
\* has been started.
C38_AccumulatorRaceFree ==
    [][ /\ (allValidCodes' # allValidCodes /\ pc # "exit") =>
              \/ CollectorWrites /\ pc' = pc
              \/ OrchestratorSorts /\ collector = "done" /\ collector' = "done"
        /\ OrchestratorSorts => collector = "done"
        /\ (ret'.codes # ret.codes /\ pc # "exit") => OrchestratorSorts /\ collector = "done"
        /\ (bucketsProcessed' # bucketsProcessed /\ pc # "exit") =>
              collector = "none" /\ collector' = "none"
      ]_vars

\* the collector has appended one of two batches while the orchestrator waits
\* for the workers
C38_Witness ==
    /\ pc = "wait" /\ collector = "running"
    /\ bucketsProcessed = 2 /\ resultCount = 1 /\ Len(allValidCodes) > 0

\* how often code occurs in the list
Occurrences(list, code) == Cardinality({k \in 1 .. Len(list) : list[k] = code})

\* the record of a line the loop body does not skip, else <<>>
RecordOfLine(line) ==
    LET parts == Split(line, PIPE)
    IN  IF Len(parts) = 2 /\ Atoi(parts[2]).ok THEN <<parts[1]>> ELSE <<>>

\* C32: after every prefix of the lines each record of the map is either
\* promoted, with its index set released and exactly one occurrence in the
\* output, or not promoted, with exactly one index and no occurrence in the
\* output; the output holds records of the map only; no index set ever holds
\* more than two indices; and a line for a promoted record changes nothing.
C32_ReducerStateInvariant ==
    /\ [](call.fn = "reduceLoop" =>
            LET st == call.st IN
            /\ \A code \in DOMAIN st.codeMap :
                  LET info == st.codeMap[code] IN
                  /\ Cardinality(info.fileIndices) <= 2
                  /\ info.isValid =>
                        info.fileIndices = {} /\ Occurrences(st.validCodes, code) = 1
                  /\ ~info.isValid =>
                        Cardinality(info.fileIndices) = 1 /\ Occurrences(st.validCodes, code) = 0
            /\ \A k \in 1 .. Len(st.validCodes) : st.validCodes[k] \in DOMAIN st.codeMap)
    /\ [][ (call.fn = "reduceLoop" /\ call'.at = call.at + 1) =>
              LET rec == RecordOfLine(call.lines[call.at + 1]) IN
              (rec # <<>> /\ rec[1] \in DOMAIN call.st.codeMap
                 /\ call.st.codeMap[rec[1]].isValid) => call'.st = call.st
         ]_vars

\* a third line, with a third index, for a record promoted by the first two
C32_Witness ==
    /\ call.fn = "reduceLoop" /\ call.at = 3
    /\ call.lines = << <<90, 124, 48>>, <<90, 124, 49>>, <<90, 124, 45, 49>> >>
    /\ call.st.validCodes = << <<90>> >>

\* C33: processBucket on a spill file and on a file holding the same lines in
\* any other order returns the same set of records, without error.
C33_OrderIndependence ==
    (call.fn = "processBucketTwice" /\ Len(call.out) = 2) =>
        /\ ~call.out[1].err /\ ~call.out[2].err
        /\ Range(call.out[1].codes) = Range(call.out[2].codes)

\* one record returned, from a file that starts with "Z|0" and from a
\* reordering of it that starts with "Z|1"
C33_Witness ==
    /\ call.fn = "processBucketTwice" /\ Len(call.out) = 2
    /\ Len(call.out[1].codes) = 1
    /\ call.lines # call.other
    /\ call.lines[1] = <<90, 124, 48>> /\ call.other[1] = <<90, 124, 49>>

\* C34: on every spill file the single-pass processBucket with early
\* promotion and the earlier two-pass processBucket return the same set of
\* records, each record once, and neither reports an error.
C34_EarlyPromotionRefines ==
    (call.fn = "processBucketBoth" /\ call.out # <<>> /\ call.old # <<>>) =>
        /\ call.out[1].err = call.old[1].err /\ ~call.out[1].err
        /\ Range(call.out[1].codes) = Range(call.old[1].codes)
        /\ Len(call.out[1].codes) = Len(call.old[1].codes)

\* both reducers have returned two records, in opposite orders
C34_Witness ==
    /\ call.fn = "processBucketBoth" /\ call.out # <<>> /\ call.old # <<>>
    /\ Len(call.out[1].codes) = 2
    /\ call.old[1].codes = <<call.out[1].codes[2], call.out[1].codes[1]>>

\* zero-based position of entry j among the non-directory entries of the listing
InputIndex(j) == Cardinality({m \in InputEntries : m < j})

Surviving(r) == Len(r) >= 8 /\ Len(r) <= 10

\* the lines of entry j that pass the length filter, in file order
SurvivingLines(j) ==
    SelectSeq(ScanLines(Bytes(dirEntries[j]), scannerMaxBuffer).toks, Surviving)

\* the entries record|i the surviving lines of the entries in J call for
RECURSIVE ExpectedEntries(_)
ExpectedEntries(J) ==
    IF J = {} THEN <<>>
    ELSE LET j == Least(J)
             s == SurvivingLines(j)
         IN  [k \in 1 .. Len(s) |-> s[k] \o <<PIPE>> \o Itoa(InputIndex(j))]
                 \o ExpectedEntries(J \ {j})

\* the lines of the spill files of the buckets in B
RECURSIVE SpillLinesOf(_)
SpillLinesOf(B) ==
    IF B = {} THEN <<>>
    ELSE LET b == Least(B) IN SpillLines(b) \o SpillLinesOf(B \ {b})

\* C35: when partitionFiles has returned without error, the lines of all spill
\* files together are, entry for entry with multiplicity, the entries record|i
\* of the surviving lines of the inputs, i being the zero-based position of the
\* line's file among the non-directory entries of the listing.
C35_SpillEntryIntegrity ==
    PartitionDone =>
        LET spilled  == SpillLinesOf(DOMAIN disk)
            expected == ExpectedEntries(InputEntries)
        IN  /\ Len(spilled) = Len(expected)
            /\ \A e \in Range(spilled) \cup Range(expected) :
                  Count(spilled, e) = Count(expected, e)
            /\ \A j \in InputEntries : \A r \in AllRecords :
                  HasSpillEntry(r, InputIndex(j)) <=> (r \in RecordsOfEntry(j) /\ Surviving(r))

\* a sub-directory listed first: the file after it is input 0, the next input 1
C35_Witness ==
    /\ PartitionDone
    /\ Len(dirEntries) = 2 /\ dirEntries[1].isDir /\ ~dirEntries[2].isDir
    /\ InputIndex(2) = 0
    /\ Len(SpillLinesOf(DOMAIN disk)) = 3

\* the list was written and the file was opened and read back
ReadBack ==
    /\ call.fn = "WriteTextFile" /\ "back" \in DOMAIN call /\ call.back # <<>>
    /\ "open" \notin DOMAIN call.back[1]

\* no record is empty, holds a newline or ends with a carriage return
Plain(codes) ==
    \A k \in 1 .. Len(codes) :
        /\ Len(codes[k]) > 0
        /\ \A i \in 1 .. Len(codes[k]) : codes[k][i] # NL
        /\ codes[k][Len(codes[k])] # 13

\* C39 as claimed: reading back the file written from any list of plain
\* records returns the list, in order and without error.
C39_RoundTrip_Claimed ==
    (ReadBack /\ Plain(call.codes)) => call.back[1] = [codes |-> call.codes, err |-> FALSE]

\* C39: reading back the file written from a list of plain records, each
\* shorter than the scanner's limit of 64 KiB, returns the list, in order and
\* without error; for the empty list it returns no records.
C39_RoundTrip ==
    (ReadBack /\ Plain(call.codes)
       /\ \A k \in 1 .. Len(call.codes) : Len(call.codes[k]) < bucketScannerMax) =>
        call.back[1] = [codes |-> call.codes, err |-> FALSE]

\* an unsorted list with a repeated record and a record holding a carriage
\* return was written over an older, longer file and read back
C39_Witness ==
    /\ ReadBack
    /\ call.codes = <<RecC, <<65, 13, 66>>, RecC>>
    /\ call.back[1].codes = call.codes

====
